---- MODULE Spec2Model ----
(***************************************************************************)
(* Issue Manager (Sentry/Linear) of kkz6/devtools.                         *)
(*                                                                         *)
(* Seven state machines share this module:                                  *)
(*   Spec        the configuration: config.Load with its legacy migration, *)
(*               config.Save, and the instance / connection / project      *)
(*               mapping management menus of the bugmanager package;       *)
(*   SyncSpec    one syncBugs pass after the other against a Sentry source *)
(*               and a Linear sink, one action per request or prompt;      *)
(*   NavSpec     the prompts of the Issue Manager and the error value each *)
(*               function returns to its caller, up to main;               *)
(*   DeriveSpec  the priority, title and labels syncBugs derives from an   *)
(*               issue, and the issue it creates from them;                *)
(*   LoadSpec    Load of a stored document, Save, and Load again;          *)
(*   RaceSpec    two runs resolving the labels of one issue against the    *)
(*               same Linear workspace, one request a step;                *)
(*   PersistSpec the menus of Spec when config.Save fails.                 *)
(***************************************************************************)
EXTENDS Integers, Sequences, FiniteSets, TLC

VARIABLES
    cfg,        \* the *config.Config every module is handed (main.go)
    file,       \* the document stored in ~/.devtools/config.yaml
    shown,      \* the error the last operation displayed ("": none)
    pc,         \* position of the running syncBugs call ("menu": none)
    pass,       \* the locals of the running syncBugs pass
    calls,      \* the requests the running pass has issued, in order
    sink,       \* the Linear workspace: its labels and its issues
    source,     \* the Sentry side: the ids of the issues marked resolved
    stack,      \* the Issue Manager functions being executed, innermost last
    ret,        \* the error value a function has just returned to its caller
    outcome,    \* what main did with the value Execute returned last
    selectedIssue,  \* the SentryIssue the derived fields are computed from
    bugDetails, \* the fields derived from selectedIssue (priority, title, labels)
    writable    \* os.MkdirAll and os.WriteFile of config.Save succeed

cfgVars  == <<cfg, file, shown>>
syncVars == <<pc, pass, calls, sink, source>>
auxVars  == <<stack, ret, outcome, selectedIssue, bugDetails, writable>>
vars     == <<cfg, file, shown, pc, pass, calls, sink, source,
              stack, ret, outcome, selectedIssue, bugDetails, writable>>

----------------------------------------------------------------------------
(* Bounds of the model *)

MaxConns == 2       \* connections addConnection lets the config grow to
MaxMaps  == 1       \* project mappings addProjectMapping lets a connection grow to
MaxPasses == 2      \* syncBugs passes of one run
MaxFaults == 2      \* requests that fail during one run
MaxUserCount == 150  \* largest SentryIssue.UserCount the derived fields are computed for

----------------------------------------------------------------------------
(* Go maps and slices *)

EmptyMap == [k \in {} |-> k]

MapPut(m, k, v) == [x \in (DOMAIN m) \cup {k} |-> IF x = k THEN v ELSE m[x]]

MapDelete(m, k) == [x \in (DOMAIN m) \ {k} |-> m[x]]

\* append(s[:i], s[i+1:]...) with i counted from 1
RemoveAt(s, i) == SubSeq(s, 1, i - 1) \o SubSeq(s, i + 1, Len(s))

\* the orders in which Go may range over a map with key set S
Orders(S) ==
    { o \in [1 .. Cardinality(S) -> S] :
        \A i, j \in 1 .. Cardinality(S) : i # j => o[i] # o[j] }

----------------------------------------------------------------------------
(* Values the inputs are drawn from *)

DefaultBaseURL == "https://sentry.io/api/0"

InstanceKeys == {"default", "work"}
InstanceNames == {"n1"}
LegacyAPIKey == "k1"
\* the API keys typed at the prompts: the one the legacy fields held
NewAPIKeys == {LegacyAPIKey}
ConnNames == {"Default Connection", "c1"}
\* what SentryClient.GetProjects returns: <<organization slug, project slug>>
SentryAPIProjects == {<<"o1", "p1">>, <<"o1", "p2">>}
LegacyMappingNames == {"m1", "m2"}
\* the comma separated parts typed at a "labels" prompt, already trimmed
LabelInputs == {<<"bug", "">>}
\* the answers to "Select Linear project": a project, or "No project"
LinearProjectChoices == {TRUE}

----------------------------------------------------------------------------
(* config.New *)

New ==
    [ Sentry |-> [ APIKey |-> "", BaseURL |-> DefaultBaseURL,
                   Projects |-> EmptyMap, Instances |-> EmptyMap ],
      Linear |-> [ APIKey |-> "", Projects |-> EmptyMap, Instances |-> EmptyMap ],
      BugManager |-> [ Connections |-> <<>> ] ]

(* yaml.Marshal of a Config: every field under its yaml tag *)
Marshal(c) ==
    [ sentry |->
        [ api_key |-> c.Sentry.APIKey,
          base_url |-> c.Sentry.BaseURL,
          projects |-> [ k \in DOMAIN c.Sentry.Projects |->
              [ organization_slug |-> c.Sentry.Projects[k].OrganizationSlug,
                project_slug |-> c.Sentry.Projects[k].ProjectSlug,
                linear_project_id |-> c.Sentry.Projects[k].LinearProjectID ] ],
          instances |-> [ k \in DOMAIN c.Sentry.Instances |->
              [ name |-> c.Sentry.Instances[k].Name,
                api_key |-> c.Sentry.Instances[k].APIKey,
                base_url |-> c.Sentry.Instances[k].BaseURL ] ] ],
      linear |->
        [ api_key |-> c.Linear.APIKey,
          projects |-> [ k \in DOMAIN c.Linear.Projects |->
              [ team_id |-> c.Linear.Projects[k].TeamID,
                project_id |-> c.Linear.Projects[k].ProjectID,
                project_name |-> c.Linear.Projects[k].ProjectName,
                labels |-> c.Linear.Projects[k].Labels ] ],
          instances |-> [ k \in DOMAIN c.Linear.Instances |->
              [ name |-> c.Linear.Instances[k].Name,
                api_key |-> c.Linear.Instances[k].APIKey ] ] ],
      bug_manager |->
        [ connections |-> [ i \in 1 .. Len(c.BugManager.Connections) |->
            LET conn == c.BugManager.Connections[i] IN
              [ name |-> conn.Name,
                linear_instance |-> conn.LinearInstance,
                sentry_instance |-> conn.SentryInstance,
                project_mappings |-> [ j \in 1 .. Len(conn.ProjectMappings) |->
                    LET pm == conn.ProjectMappings[j] IN
                      [ sentry_organization |-> pm.SentryOrganization,
                        sentry_project |-> pm.SentryProject,
                        linear_team_id |-> pm.LinearTeamID,
                        linear_project_id |-> pm.LinearProjectID,
                        linear_project_name |-> pm.LinearProjectName,
                        default_labels |-> pm.DefaultLabels ] ] ] ] ] ]

(* yaml.Unmarshal into a Config *)
Unmarshal(d) ==
    [ Sentry |->
        [ APIKey |-> d.sentry.api_key,
          BaseURL |-> d.sentry.base_url,
          Projects |-> [ k \in DOMAIN d.sentry.projects |->
              [ OrganizationSlug |-> d.sentry.projects[k].organization_slug,
                ProjectSlug |-> d.sentry.projects[k].project_slug,
                LinearProjectID |-> d.sentry.projects[k].linear_project_id ] ],
          Instances |-> [ k \in DOMAIN d.sentry.instances |->
              [ Name |-> d.sentry.instances[k].name,
                APIKey |-> d.sentry.instances[k].api_key,
                BaseURL |-> d.sentry.instances[k].base_url ] ] ],
      Linear |->
        [ APIKey |-> d.linear.api_key,
          Projects |-> [ k \in DOMAIN d.linear.projects |->
              [ TeamID |-> d.linear.projects[k].team_id,
                ProjectID |-> d.linear.projects[k].project_id,
                ProjectName |-> d.linear.projects[k].project_name,
                Labels |-> d.linear.projects[k].labels ] ],
          Instances |-> [ k \in DOMAIN d.linear.instances |->
              [ Name |-> d.linear.instances[k].name,
                APIKey |-> d.linear.instances[k].api_key ] ] ],
      BugManager |->
        [ Connections |-> [ i \in 1 .. Len(d.bug_manager.connections) |->
            LET conn == d.bug_manager.connections[i] IN
              [ Name |-> conn.name,
                LinearInstance |-> conn.linear_instance,
                SentryInstance |-> conn.sentry_instance,
                ProjectMappings |-> [ j \in 1 .. Len(conn.project_mappings) |->
                    LET pm == conn.project_mappings[j] IN
                      [ SentryOrganization |-> pm.sentry_organization,
                        SentryProject |-> pm.sentry_project,
                        LinearTeamID |-> pm.linear_team_id,
                        LinearProjectID |-> pm.linear_project_id,
                        LinearProjectName |-> pm.linear_project_name,
                        DefaultLabels |-> pm.default_labels ] ] ] ] ] ]

(* config.Save: the document written to config.yaml *)
Save(c) == Marshal(c)

----------------------------------------------------------------------------
(* config.Load: defaults and the migration of the legacy fields *)

\* the mappings built from the legacy tables, ranging over Sentry.Projects
\* in the order `order`
RECURSIVE MigrateMappings(_, _, _)
MigrateMappings(sentryProjects, linearProjects, order) ==
    IF order = <<>> THEN <<>>
    ELSE LET sentryProj == sentryProjects[Head(order)]
             rest == MigrateMappings(sentryProjects, linearProjects, Tail(order))
         IN  IF sentryProj.LinearProjectID \in DOMAIN linearProjects
             THEN LET linearProj == linearProjects[sentryProj.LinearProjectID] IN
                  << [ SentryOrganization |-> sentryProj.OrganizationSlug,
                       SentryProject |-> sentryProj.ProjectSlug,
                       LinearTeamID |-> linearProj.TeamID,
                       LinearProjectID |-> linearProj.ProjectID,
                       LinearProjectName |-> linearProj.ProjectName,
                       DefaultLabels |-> linearProj.Labels ] >> \o rest
             ELSE rest

\* a variant of MigrateSentryInstances that replaces the instance table
MigrateSentryInstances_Replace(s) ==
    IF s.APIKey # ""
    THEN [ k \in {"default"} |->
             [ Name |-> "Default Sentry", APIKey |-> s.APIKey, BaseURL |-> s.BaseURL ] ]
    ELSE s.Instances

MigrateSentryInstances(s) ==
    IF s.APIKey # "" /\ DOMAIN s.Instances = {}
    THEN MapPut(s.Instances, "default",
                [ Name |-> "Default Sentry", APIKey |-> s.APIKey, BaseURL |-> s.BaseURL ])
    ELSE s.Instances

\* a variant of MigrateLinearInstances that leaves the credential behind
MigrateLinearInstances_NoKey(l) ==
    IF l.APIKey # "" /\ DOMAIN l.Instances = {}
    THEN MapPut(l.Instances, "default", [ Name |-> "Default Linear", APIKey |-> "" ])
    ELSE l.Instances

MigrateLinearInstances(l) ==
    IF l.APIKey # "" /\ DOMAIN l.Instances = {}
    THEN MapPut(l.Instances, "default",
                [ Name |-> "Default Linear", APIKey |-> l.APIKey ])
    ELSE l.Instances

\* a variant of MigrateConnections that does not look at the connections present
MigrateConnections_Always(c, order) ==
    LET mappings == MigrateMappings(c.Sentry.Projects, c.Linear.Projects, order)
    IN  IF Len(mappings) > 0
        THEN Append(c.BugManager.Connections,
                    [ Name |-> "Default Connection",
                      LinearInstance |-> "default",
                      SentryInstance |-> "default",
                      ProjectMappings |-> mappings ])
        ELSE c.BugManager.Connections

MigrateConnections(c, order) ==
    IF Len(c.BugManager.Connections) = 0 /\ DOMAIN c.Sentry.Projects # {}
    THEN LET mappings == MigrateMappings(c.Sentry.Projects, c.Linear.Projects, order)
         IN  IF Len(mappings) > 0
             THEN Append(c.BugManager.Connections,
                         [ Name |-> "Default Connection",
                           LinearInstance |-> "default",
                           SentryInstance |-> "default",
                           ProjectMappings |-> mappings ])
             ELSE c.BugManager.Connections
    ELSE c.BugManager.Connections

\* the Config Load returns for document d when Go ranges over the legacy
\* project table in the order `order`
Load(d, order) ==
    LET c0 == Unmarshal(d)
        c1 == [ c0 EXCEPT !.Sentry.BaseURL =
                   IF c0.Sentry.BaseURL = "" THEN DefaultBaseURL ELSE @ ]
        c2 == [ c1 EXCEPT !.Sentry.Instances = MigrateSentryInstances(c1.Sentry) ]
        c3 == [ c2 EXCEPT !.Linear.Instances = MigrateLinearInstances(c2.Linear) ]
    IN  [ c3 EXCEPT !.BugManager.Connections = MigrateConnections(c3, order) ]

Loads(d) == { Load(d, order) : order \in Orders(DOMAIN d.sentry.projects) }

----------------------------------------------------------------------------
(* The documents a first run can find in config.yaml: the one Load writes  *)
(* when there is none (New), an empty one, and the ones the single-instance *)
(* version of the module wrote (API keys, then project tables keyed by a   *)
(* mapping name the user typed).                                           *)

LegacySentryProject(slug) ==
    [ organization_slug |-> "o1", project_slug |-> slug, linear_project_id |-> "L1" ]

LegacyLinearProject ==
    [ team_id |-> "T1", project_id |-> "L1", project_name |-> "Proj",
      labels |-> <<"bug", "sentry">> ]

LegacySentryTables ==
    {EmptyMap}
    \cup { [ k \in {"m1"} |-> LegacySentryProject("p1") ] }
    \cup { [ k \in LegacyMappingNames |->
               IF k = "m1" THEN LegacySentryProject("p1") ELSE LegacySentryProject(slug) ]
           : slug \in {"p1", "p2"} }

LegacyDoc(sentryKey, baseURL, sentryProjects, linearKey, linearProjects) ==
    [ sentry |-> [ api_key |-> sentryKey, base_url |-> baseURL,
                   projects |-> sentryProjects, instances |-> EmptyMap ],
      linear |-> [ api_key |-> linearKey, projects |-> linearProjects,
                   instances |-> EmptyMap ],
      bug_manager |-> [ connections |-> <<>> ] ]

InitialDocs ==
    { LegacyDoc("", "", EmptyMap, "", EmptyMap),
      LegacyDoc(LegacyAPIKey, DefaultBaseURL, EmptyMap, "", EmptyMap),
      LegacyDoc("", DefaultBaseURL, EmptyMap, LegacyAPIKey, EmptyMap),
      LegacyDoc(LegacyAPIKey, DefaultBaseURL,
                [ k \in {"m1"} |-> LegacySentryProject("p1") ], LegacyAPIKey, EmptyMap) }
    \cup { LegacyDoc(LegacyAPIKey, DefaultBaseURL, sp, LegacyAPIKey,
                     [ k \in {"L1"} |-> LegacyLinearProject ]) :
             sp \in LegacySentryTables \ {EmptyMap} }

----------------------------------------------------------------------------
(* The locals of a syncBugs pass, the Linear workspace and the call log *)

EmptySink == [ labels |-> {}, issues |-> <<>> ]

\* before the first pass; sink0 and source0 are the sink and the source as
\* the pass found them
NoPass ==
    [ n |-> 0,              \* number of the pass
      faults |-> 0,         \* requests that failed so far in this run
      conn |-> 0,           \* selectedConnection (index, 0: none)
      mapping |-> 0,        \* selectedMapping (index, 0: none)
      issues |-> <<>>,      \* issues
      issue |-> "",         \* selectedIssue.ID
      event |-> FALSE,      \* event # nil
      bug |-> [ Title |-> "", Description |-> <<>>, Priority |-> 0 ],
      create |-> "",        \* answer to "Create this issue in Linear?"
      states |-> <<>>,      \* states
      stateID |-> "",       \* selectedStateID
      i |-> 0,              \* position in allLabels
      labelIDs |-> <<>>,    \* labelIDs
      warned |-> {},        \* labels of the "Failed to create label" warnings
      linearIssue |-> 0,    \* linearIssue (index in the sink, 0: nil)
      resolve |-> "",       \* answer to "Mark this issue as resolved in Sentry?"
      cancelled |-> {},     \* the prompts the user cancelled
      failed |-> "",        \* the required step that failed
      sink0 |-> EmptySink,
      source0 |-> {} ]

LinearCalls == {"GetWorkflowStates", "GetLabel", "CreateLabel", "CreateIssue"}
MutatingCalls == {"CreateLabel", "CreateIssue", "ResolveIssue"}

Range(seq) == { seq[k] : k \in 1 .. Len(seq) }

----------------------------------------------------------------------------
(* Messages of ui.ShowError and of the validators of ui.GetInput *)

MsgNone == ""
MsgInUse == "Cannot remove instance: it is used in one or more connections"
MsgAlreadyMapped == "This Sentry project is already mapped in this connection."
MsgNoInstances == "No instances configured"
MsgKeyExists == "instance with key already exists"
MsgSaveFailed == "failed to save configuration"

----------------------------------------------------------------------------
(* Instance management (manageInstances and below) *)

Connections == cfg.BugManager.Connections

\* a variant of the validator that only refuses the empty key
ValidInstanceKey_NotEmpty(instances, s) == s # ""

\* the validator of the "Instance key" prompt
ValidInstanceKey(instances, s) == s # "" /\ s \notin DOMAIN instances

\* a variant of the loop of editLinearInstance that reads the other field
LinearInUse_OtherField(c, key) ==
    \E i \in 1 .. Len(c.BugManager.Connections) :
        c.BugManager.Connections[i].SentryInstance = key

\* the loops that look for a connection using the instance
LinearInUse(c, key) ==
    \E i \in 1 .. Len(c.BugManager.Connections) :
        c.BugManager.Connections[i].LinearInstance = key

SentryInUse(c, key) ==
    \E i \in 1 .. Len(c.BugManager.Connections) :
        c.BugManager.Connections[i].SentryInstance = key

\* a variant of Commit that leaves config.Save out
Commit_NoSave(c) ==
    /\ cfg' = c
    /\ shown' = MsgNone
    /\ UNCHANGED file

\* every mutation of the menus: the change, then config.Save, and
\* "return fmt.Errorf("failed to save configuration: %w", err)" when it fails
Commit(c) ==
    /\ cfg' = c
    /\ file' = IF writable THEN Save(c) ELSE file
    /\ shown' = IF writable THEN MsgNone ELSE MsgSaveFailed

addLinearInstance(key, name, apiKey) ==
    /\ pc = "menu"
    /\ ValidInstanceKey(cfg.Linear.Instances, key)
    /\ Commit([ cfg EXCEPT !.Linear.Instances =
                  MapPut(@, key, [ Name |-> name, APIKey |-> apiKey ]) ])
    /\ UNCHANGED <<syncVars, auxVars>>

\* the "Instance key" prompt refuses a key of the map and stays open
addLinearInstance_KeyExists(key) ==
    /\ pc = "menu"
    /\ key \in DOMAIN cfg.Linear.Instances
    /\ shown' = MsgKeyExists
    /\ UNCHANGED <<cfg, file>>
    /\ UNCHANGED <<syncVars, auxVars>>

editLinearInstance_EditName(key, name) ==
    /\ pc = "menu"
    /\ key \in DOMAIN cfg.Linear.Instances
    /\ Commit([ cfg EXCEPT !.Linear.Instances[key].Name = name ])
    /\ UNCHANGED <<syncVars, auxVars>>

editLinearInstance_UpdateAPIKey(key, apiKey) ==
    /\ pc = "menu"
    /\ key \in DOMAIN cfg.Linear.Instances
    /\ Commit([ cfg EXCEPT !.Linear.Instances[key].APIKey = apiKey ])
    /\ UNCHANGED <<syncVars, auxVars>>

editLinearInstance_Remove(key, confirm) ==
    /\ pc = "menu"
    /\ key \in DOMAIN cfg.Linear.Instances
    /\ IF LinearInUse(cfg, key)
       THEN shown' = MsgInUse /\ UNCHANGED <<cfg, file>>
       ELSE IF confirm
            THEN Commit([ cfg EXCEPT !.Linear.Instances = MapDelete(@, key) ])
            ELSE shown' = MsgNone /\ UNCHANGED <<cfg, file>>
    /\ UNCHANGED <<syncVars, auxVars>>

addSentryInstance(key, name, baseURL, apiKey) ==
    /\ pc = "menu"
    /\ ValidInstanceKey(cfg.Sentry.Instances, key)
    /\ Commit([ cfg EXCEPT !.Sentry.Instances =
                  MapPut(@, key, [ Name |-> name, APIKey |-> apiKey, BaseURL |-> baseURL ]) ])
    /\ UNCHANGED <<syncVars, auxVars>>

addSentryInstance_KeyExists(key) ==
    /\ pc = "menu"
    /\ key \in DOMAIN cfg.Sentry.Instances
    /\ shown' = MsgKeyExists
    /\ UNCHANGED <<cfg, file>>
    /\ UNCHANGED <<syncVars, auxVars>>

editSentryInstance_EditName(key, name) ==
    /\ pc = "menu"
    /\ key \in DOMAIN cfg.Sentry.Instances
    /\ Commit([ cfg EXCEPT !.Sentry.Instances[key].Name = name ])
    /\ UNCHANGED <<syncVars, auxVars>>

editSentryInstance_EditBaseURL(key, baseURL) ==
    /\ pc = "menu"
    /\ key \in DOMAIN cfg.Sentry.Instances
    /\ Commit([ cfg EXCEPT !.Sentry.Instances[key].BaseURL = baseURL ])
    /\ UNCHANGED <<syncVars, auxVars>>

editSentryInstance_UpdateAPIKey(key, apiKey) ==
    /\ pc = "menu"
    /\ key \in DOMAIN cfg.Sentry.Instances
    /\ Commit([ cfg EXCEPT !.Sentry.Instances[key].APIKey = apiKey ])
    /\ UNCHANGED <<syncVars, auxVars>>

editSentryInstance_Remove(key, confirm) ==
    /\ pc = "menu"
    /\ key \in DOMAIN cfg.Sentry.Instances
    /\ IF SentryInUse(cfg, key)
       THEN shown' = MsgInUse /\ UNCHANGED <<cfg, file>>
       ELSE IF confirm
            THEN Commit([ cfg EXCEPT !.Sentry.Instances = MapDelete(@, key) ])
            ELSE shown' = MsgNone /\ UNCHANGED <<cfg, file>>
    /\ UNCHANGED <<syncVars, auxVars>>

----------------------------------------------------------------------------
(* Connection management (manageConnections and below) *)

\* the validator of addConnection's "Connection name" prompt
ValidConnectionName(c, s) ==
    /\ s # ""
    /\ \A i \in 1 .. Len(c.BugManager.Connections) :
          c.BugManager.Connections[i].Name # s

\* the validator of editConnection's "Connection name" prompt: none (nil);
\* ui.GetInput itself turns the empty input into "cancelled"
ValidEditedName(c, s) == s # ""

addConnection(name, sentryKey, linearKey) ==
    /\ pc = "menu"
    /\ Len(Connections) < MaxConns
    /\ DOMAIN cfg.Linear.Instances # {}
    /\ DOMAIN cfg.Sentry.Instances # {}
    /\ ValidConnectionName(cfg, name)
    /\ sentryKey \in DOMAIN cfg.Sentry.Instances
    /\ linearKey \in DOMAIN cfg.Linear.Instances
    /\ Commit([ cfg EXCEPT !.BugManager.Connections =
                  Append(@, [ Name |-> name,
                              LinearInstance |-> linearKey,
                              SentryInstance |-> sentryKey,
                              ProjectMappings |-> <<>> ]) ])
    /\ UNCHANGED <<syncVars, auxVars>>

\* addConnection's early return when a kind has no instance
addConnection_NoInstances ==
    /\ pc = "menu"
    /\ DOMAIN cfg.Linear.Instances = {} \/ DOMAIN cfg.Sentry.Instances = {}
    /\ shown' = MsgNoInstances
    /\ UNCHANGED <<cfg, file>>
    /\ UNCHANGED <<syncVars, auxVars>>

editConnection_EditName(index, name) ==
    /\ pc = "menu"
    /\ index \in 1 .. Len(Connections)
    /\ ValidEditedName(cfg, name)
    /\ Commit([ cfg EXCEPT !.BugManager.Connections[index].Name = name ])
    /\ UNCHANGED <<syncVars, auxVars>>

editConnection_ChangeSentry(index, key) ==
    /\ pc = "menu"
    /\ index \in 1 .. Len(Connections)
    /\ key \in DOMAIN cfg.Sentry.Instances
    /\ Commit([ cfg EXCEPT !.BugManager.Connections[index].SentryInstance = key ])
    /\ UNCHANGED <<syncVars, auxVars>>

editConnection_ChangeLinear(index, key) ==
    /\ pc = "menu"
    /\ index \in 1 .. Len(Connections)
    /\ key \in DOMAIN cfg.Linear.Instances
    /\ Commit([ cfg EXCEPT !.BugManager.Connections[index].LinearInstance = key ])
    /\ UNCHANGED <<syncVars, auxVars>>

editConnection_Remove(index, confirm) ==
    /\ pc = "menu"
    /\ index \in 1 .. Len(Connections)
    /\ IF confirm
       THEN Commit([ cfg EXCEPT !.BugManager.Connections = RemoveAt(@, index) ])
       ELSE shown' = MsgNone /\ UNCHANGED <<cfg, file>>
    /\ UNCHANGED <<syncVars, auxVars>>

----------------------------------------------------------------------------
(* Project mappings of one connection (manageProjectMappings and below) *)

\* manageProjectMappings' entry check: both instances of the connection exist
InstancesResolve(c, conn) ==
    /\ conn.SentryInstance \in DOMAIN c.Sentry.Instances
    /\ conn.LinearInstance \in DOMAIN c.Linear.Instances

\* addProjectMapping's loop "Check if this Sentry project is already mapped"
AlreadyMapped(conn, org, slug) ==
    \E j \in 1 .. Len(conn.ProjectMappings) :
        /\ conn.ProjectMappings[j].SentryOrganization = org
        /\ conn.ProjectMappings[j].SentryProject = slug

\* strings.Split(labelsInput, ","), TrimSpace, the empty parts dropped;
\* `parts` are the trimmed parts of the input
ParseLabels(parts) == SelectSeq(parts, LAMBDA l : l # "")

addProjectMapping(index, proj, withProject, parts) ==
    /\ pc = "menu"
    /\ index \in 1 .. Len(Connections)
    /\ InstancesResolve(cfg, Connections[index])
    /\ IF AlreadyMapped(Connections[index], proj[1], proj[2])
       THEN shown' = MsgAlreadyMapped /\ UNCHANGED <<cfg, file>>
       ELSE /\ Len(Connections[index].ProjectMappings) < MaxMaps
            /\ Commit([ cfg EXCEPT !.BugManager.Connections[index].ProjectMappings =
                Append(@, [ SentryOrganization |-> proj[1],
                            SentryProject |-> proj[2],
                            LinearTeamID |-> "T1",
                            LinearProjectID |-> IF withProject THEN "L1" ELSE "",
                            LinearProjectName |->
                                IF withProject THEN "Proj" ELSE "Team (Team)",
                            DefaultLabels |-> ParseLabels(parts) ]) ])
    /\ UNCHANGED <<syncVars, auxVars>>

editProjectMapping_EditLabels(index, j, parts) ==
    /\ pc = "menu"
    /\ index \in 1 .. Len(Connections)
    /\ InstancesResolve(cfg, Connections[index])
    /\ j \in 1 .. Len(Connections[index].ProjectMappings)
    /\ Commit([ cfg EXCEPT !.BugManager.Connections[index].ProjectMappings[j].DefaultLabels =
                  ParseLabels(parts) ])
    /\ UNCHANGED <<syncVars, auxVars>>

editProjectMapping_Remove(index, j, confirm) ==
    /\ pc = "menu"
    /\ index \in 1 .. Len(Connections)
    /\ InstancesResolve(cfg, Connections[index])
    /\ j \in 1 .. Len(Connections[index].ProjectMappings)
    /\ IF confirm
       THEN Commit([ cfg EXCEPT !.BugManager.Connections[index].ProjectMappings =
                       RemoveAt(@, j) ])
       ELSE shown' = MsgNone /\ UNCHANGED <<cfg, file>>
    /\ UNCHANGED <<syncVars, auxVars>>

----------------------------------------------------------------------------
(* main: the config is loaded once per run and saved after a module that   *)
(* returned nil                                                            *)

\* the process ends and is started again: main calls config.Load
Restart ==
    /\ pc = "menu"
    /\ cfg' \in Loads(file)
    /\ shown' = MsgNone
    /\ UNCHANGED file
    /\ UNCHANGED <<syncVars, auxVars>>

\* main's "Save configuration after execution"
main_Save ==
    /\ pc = "menu"
    /\ file' = IF writable THEN Save(cfg) ELSE file
    /\ shown' = MsgNone
    /\ UNCHANGED cfg
    /\ UNCHANGED <<syncVars, auxVars>>

----------------------------------------------------------------------------
(* The configuration state machine *)

SyncIdle ==
    /\ pc = "menu"
    /\ pass = NoPass
    /\ calls = <<>>
    /\ sink = EmptySink
    /\ source = {}

\* no value is being returned: a prompt is open, or main shows its own menu
NoReturn == "none"

\* the Issue Manager has not been entered
NavIdle ==
    /\ stack = <<>>
    /\ ret = NoReturn
    /\ outcome = "none"

\* no issue has been fetched
CalcIdle ==
    /\ selectedIssue = "none"
    /\ bugDetails = "none"

Init ==
    /\ file \in InitialDocs
    /\ cfg \in Loads(file)
    /\ shown = MsgNone
    /\ SyncIdle
    /\ NavIdle
    /\ writable = TRUE
    /\ CalcIdle

ManageInstances ==
    \/ \E key \in InstanceKeys, name \in InstanceNames, apiKey \in NewAPIKeys :
          addLinearInstance(key, name, apiKey)
    \/ \E key \in InstanceKeys : addLinearInstance_KeyExists(key)
    \/ \E key \in InstanceKeys, name \in InstanceNames :
          editLinearInstance_EditName(key, name)
    \/ \E key \in InstanceKeys, apiKey \in NewAPIKeys :
          editLinearInstance_UpdateAPIKey(key, apiKey)
    \/ \E key \in InstanceKeys, confirm \in BOOLEAN :
          editLinearInstance_Remove(key, confirm)
    \/ \E key \in InstanceKeys, name \in InstanceNames, apiKey \in NewAPIKeys :
          addSentryInstance(key, name, DefaultBaseURL, apiKey)
    \/ \E key \in InstanceKeys : addSentryInstance_KeyExists(key)
    \/ \E key \in InstanceKeys, name \in InstanceNames :
          editSentryInstance_EditName(key, name)
    \/ \E key \in InstanceKeys :
          editSentryInstance_EditBaseURL(key, DefaultBaseURL)
    \/ \E key \in InstanceKeys, apiKey \in NewAPIKeys :
          editSentryInstance_UpdateAPIKey(key, apiKey)
    \/ \E key \in InstanceKeys, confirm \in BOOLEAN :
          editSentryInstance_Remove(key, confirm)

ManageConnections ==
    \/ \E name \in ConnNames, sentryKey \in InstanceKeys, linearKey \in InstanceKeys :
          addConnection(name, sentryKey, linearKey)
    \/ addConnection_NoInstances
    \/ \E index \in 1 .. MaxConns + 1, name \in ConnNames :
          editConnection_EditName(index, name)
    \/ \E index \in 1 .. MaxConns + 1, key \in InstanceKeys :
          editConnection_ChangeSentry(index, key)
    \/ \E index \in 1 .. MaxConns + 1, key \in InstanceKeys :
          editConnection_ChangeLinear(index, key)
    \/ \E index \in 1 .. MaxConns + 1, confirm \in BOOLEAN :
          editConnection_Remove(index, confirm)

ManageProjectMappings ==
    \/ \E index \in 1 .. MaxConns + 1, proj \in SentryAPIProjects,
          withProject \in LinearProjectChoices, parts \in LabelInputs :
          addProjectMapping(index, proj, withProject, parts)
    \/ \E index \in 1 .. MaxConns + 1, j \in 1 .. MaxMaps + 2, parts \in LabelInputs :
          editProjectMapping_EditLabels(index, j, parts)
    \/ \E index \in 1 .. MaxConns + 1, j \in 1 .. MaxMaps + 2, confirm \in BOOLEAN :
          editProjectMapping_Remove(index, j, confirm)

Next ==
    \/ ManageInstances
    \/ ManageConnections
    \/ ManageProjectMappings
    \/ Restart
    \/ main_Save

Spec == Init /\ [][Next]_vars

\* the same menus when the configuration file cannot be written
PersistInit ==
    /\ file \in InitialDocs
    /\ cfg \in Loads(file)
    /\ shown = MsgNone
    /\ SyncIdle
    /\ NavIdle
    /\ writable = FALSE
    /\ CalcIdle

PersistSpec == PersistInit /\ [][Next]_vars

----------------------------------------------------------------------------
(* syncBugs: the Sentry project, the derived fields                        *)

MsgNoConnections == "No Sentry-Linear connections configured. Please add a connection first."
MsgNoMappings == "Selected connection has no project mappings. Please configure project mappings first."
MsgInvalidInstance == "Invalid instance configuration in connection."
MsgFetchFailed == "Failed to fetch issues"
MsgDetailsFailed == "Failed to get issue details"
MsgCreateFailed == "Failed to create Linear issue"
MsgResolveFailed == "Failed to resolve issue in Sentry"

ProjectIssueIDs == <<"i1", "i2">>

\* the issues of the Sentry projects, by ID; LatestEvent is
\* event.Exception.Values of the event the events/latest endpoint holds for
\* the issue, an exception being its stack frames and a frame its inApp flag
\* and line number
IssueTable ==
    [ id \in Range(ProjectIssueIDs) |->
        IF id = "i1"
        THEN [ ID |-> "i1", ShortID |-> "S-1", Title |-> "boom", Level |-> "error",
               Platform |-> "go", UserCount |-> 120, Project |-> "p1",
               Permalink |-> "https://sentry.io/issues/i1",
               LatestEvent |-> << << [ InApp |-> TRUE, LineNo |-> 10 ],
                                     [ InApp |-> FALSE, LineNo |-> 3 ] >> >> ]
        ELSE [ ID |-> "i2", ShortID |-> "S-2", Title |-> "slow", Level |-> "warning",
               Platform |-> "go", UserCount |-> 7, Project |-> "p1",
               Permalink |-> "https://sentry.io/issues/i2",
               LatestEvent |-> << >> ] ]

\* the answer of the issues endpoint with query "is:unresolved"
Unresolved(slug, resolved) ==
    SelectSeq(ProjectIssueIDs,
              LAMBDA id : IssueTable[id].Project = slug /\ id \notin resolved)

\* the workflow states of the team
TeamStates == <<"s1">>

\* a variant of calculatePriority without the adjustment for user impact
calculatePriority_BaseOnly(issue) ==
    IF issue.Level \in {"fatal", "critical"} THEN 1
    ELSE IF issue.Level = "error" THEN 2
    ELSE IF issue.Level = "warning" THEN 3
    ELSE IF issue.Level \in {"info", "debug"} THEN 4
    ELSE 3

\* a variant of calculatePriority with the comparisons of the user count reversed
calculatePriority_Reversed(issue) ==
    LET basePriority == calculatePriority_BaseOnly(issue)
    IN  IF issue.UserCount < 100 /\ basePriority > 1 THEN 1
        ELSE IF issue.UserCount < 50 /\ basePriority > 2 THEN 2
        ELSE basePriority

calculatePriority(issue) ==
    LET basePriority ==
            IF issue.Level \in {"fatal", "critical"} THEN 1
            ELSE IF issue.Level = "error" THEN 2
            ELSE IF issue.Level = "warning" THEN 3
            ELSE IF issue.Level \in {"info", "debug"} THEN 4
            ELSE 3
    IN  IF issue.UserCount > 100 /\ basePriority > 1 THEN 1
        ELSE IF issue.UserCount > 50 /\ basePriority > 2 THEN 2
        ELSE basePriority

\* a variant of getSentryLabels whose upper threshold includes 100
getSentryLabels_From100(issue) ==
    << "level:" \o issue.Level, "platform:" \o issue.Platform >>
    \o ( IF issue.UserCount >= 100 THEN << "high-impact" >>
         ELSE IF issue.UserCount > 50 THEN << "medium-impact" >>
         ELSE << >> )

\* a variant of getSentryLabels without the impact label
getSentryLabels_NoImpact(issue) ==
    << "level:" \o issue.Level, "platform:" \o issue.Platform >>

getSentryLabels(issue) ==
    << "level:" \o issue.Level, "platform:" \o issue.Platform >>
    \o ( IF issue.UserCount > 100 THEN << "high-impact" >>
         ELSE IF issue.UserCount > 50 THEN << "medium-impact" >>
         ELSE << >> )

\* a variant of prepareBugDetails that writes the stack trace of the latest
\* event of the issue whether or not the event was fetched
prepareBugDetails_AlwaysTrace(issue, event) ==
    [ Title |-> "[Sentry " \o issue.ShortID \o "] " \o issue.Title,
      Description |-> << "## Sentry Bug Report", "## Error Details", "## Stack Trace",
                         "[View in Sentry](" \o issue.Permalink \o ")" >>,
      Priority |-> calculatePriority(issue) ]

\* the description is kept as the list of its sections (the issues of this
\* model carry no metadata: "## Additional Information" is never written);
\* event.nil is "event == nil", event.Values is event.Exception.Values
prepareBugDetails(issue, event) ==
    [ Title |-> "[Sentry " \o issue.ShortID \o "] " \o issue.Title,
      Description |->
          << "## Sentry Bug Report", "## Error Details" >>
          \o ( IF ~event.nil /\ Len(event.Values) > 0
               THEN << "## Stack Trace" >>
                    \o ( IF \E i \in 1 .. Len(event.Values[1]) :
                               /\ event.Values[1][i].InApp
                               /\ event.Values[1][i].LineNo > 0
                         THEN << "**Error Location:**" >>
                         ELSE << >> )
               ELSE << >> )
          \o << "[View in Sentry](" \o issue.Permalink \o ")" >>,
      Priority |-> calculatePriority(issue) ]

\* a variant of allLabels that leaves the default labels out
allLabels_SentryOnly(mapping, issue) == getSentryLabels(issue)

\* allLabels := append(selectedMapping.DefaultLabels, m.getSentryLabels(...)...)
allLabels(mapping, issue) == mapping.DefaultLabels \o getSentryLabels(issue)

----------------------------------------------------------------------------
(* syncBugs, one action per prompt and per request                         *)

SelectedConnection == Connections[pass.conn]
SelectedMapping == SelectedConnection.ProjectMappings[pass.mapping]
PassLabels == allLabels(SelectedMapping, IssueTable[pass.issue])

\* a variant of InstanceMissing that looks at the Linear instance only
InstanceMissing_LinearOnly(c, conn) ==
    conn.LinearInstance \notin DOMAIN c.Linear.Instances

\* "sentryInstance == nil || linearInstance == nil"
InstanceMissing(c, conn) ==
    \/ conn.SentryInstance \notin DOMAIN c.Sentry.Instances
    \/ conn.LinearInstance \notin DOMAIN c.Linear.Instances

\* a request that may fail: at most MaxFaults of them do
Outcome(ok) == ok \/ pass.faults < MaxFaults

Fault(p, ok) == [ p EXCEPT !.faults = IF ok THEN @ ELSE @ + 1 ]

\* return to showMainMenu's loop
Return(p, msg) ==
    /\ pc' = "menu"
    /\ pass' = p
    /\ shown' = msg

Goto(p, position) ==
    /\ pc' = position
    /\ pass' = p
    /\ UNCHANGED shown

\* showMainMenu, choice "Sync Bugs from Sentry"
showMainMenu_SyncBugs ==
    /\ pc = "menu"
    /\ pass.n < MaxPasses
    /\ pc' = "syncBugs"
    /\ pass' = [ NoPass EXCEPT !.n = pass.n + 1, !.faults = pass.faults,
                               !.sink0 = sink, !.source0 = source ]
    /\ calls' = <<>>
    /\ shown' = MsgNone
    /\ UNCHANGED <<auxVars, cfg, file, sink, source>>

\* from the connection to the first request
UseConnection(index) ==
    LET conn == Connections[index]
        p == [ pass EXCEPT !.conn = index ]
    IN  IF Len(conn.ProjectMappings) = 0
        THEN Return(p, MsgNoMappings)
        ELSE IF InstanceMissing(cfg, conn)
        THEN Return([ p EXCEPT !.failed = "instances" ], MsgInvalidInstance)
        ELSE IF Len(conn.ProjectMappings) = 1
        THEN Goto([ p EXCEPT !.mapping = 1 ], "GetUnresolvedIssues")
        ELSE Goto(p, "selectMapping")

syncBugs_Enter ==
    /\ pc = "syncBugs"
    /\ IF Len(Connections) = 0
       THEN Return(pass, MsgNoConnections)
       ELSE IF Len(Connections) = 1
       THEN UseConnection(1)
       ELSE Goto(pass, "selectConnection")
    /\ UNCHANGED <<auxVars, cfg, file, calls, sink, source>>

\* "Select connection to sync"; choice 0 is the cancelled prompt
selectConnection(choice) ==
    /\ pc = "selectConnection"
    /\ choice \in 0 .. Len(Connections)
    /\ IF choice = 0
       THEN Return([ pass EXCEPT !.cancelled = @ \cup {"connection"} ], shown)
       ELSE UseConnection(choice)
    /\ UNCHANGED <<auxVars, cfg, file, calls, sink, source>>

\* "Select project to sync from"
selectMapping(choice) ==
    /\ pc = "selectMapping"
    /\ choice \in 0 .. Len(SelectedConnection.ProjectMappings)
    /\ IF choice = 0
       THEN Return([ pass EXCEPT !.cancelled = @ \cup {"mapping"} ], shown)
       ELSE Goto([ pass EXCEPT !.mapping = choice ], "GetUnresolvedIssues")
    /\ UNCHANGED <<auxVars, cfg, file, calls, sink, source>>

GetUnresolvedIssues(ok) ==
    /\ pc = "GetUnresolvedIssues"
    /\ Outcome(ok)
    /\ calls' = Append(calls, "GetUnresolvedIssues")
    /\ LET issues == Unresolved(SelectedMapping.SentryProject, source)
           p == Fault(pass, ok)
       IN  IF ~ok
           THEN Return([ p EXCEPT !.failed = "GetUnresolvedIssues" ], MsgFetchFailed)
           ELSE IF Len(issues) = 0
           THEN Return(p, shown)
           ELSE Goto([ p EXCEPT !.issues = issues ], "selectIssue")
    /\ UNCHANGED <<auxVars, cfg, file, sink, source>>

\* "Select issue to sync to Linear"
selectIssue(choice) ==
    /\ pc = "selectIssue"
    /\ choice \in 0 .. Len(pass.issues)
    /\ IF choice = 0
       THEN Return([ pass EXCEPT !.cancelled = @ \cup {"issue"} ], shown)
       ELSE Goto([ pass EXCEPT !.issue = pass.issues[choice] ], "GetIssueDetails")
    /\ UNCHANGED <<auxVars, cfg, file, calls, sink, source>>

\* a variant of AfterGetIssueDetails that goes on after an error
AfterGetIssueDetails_GoOn(ok) == "GetLatestEvent"

\* a variant of AfterGetIssueDetails that leaves the latest event out
AfterGetIssueDetails_SkipEvent(ok) == IF ok THEN "confirmCreate" ELSE "menu"

\* where syncBugs goes after GetIssueDetails
AfterGetIssueDetails(ok) == IF ok THEN "GetLatestEvent" ELSE "menu"

GetIssueDetails(ok) ==
    /\ pc = "GetIssueDetails"
    /\ Outcome(ok)
    /\ calls' = Append(calls, "GetIssueDetails")
    /\ pc' = AfterGetIssueDetails(ok)
    /\ pass' = [ Fault(pass, ok) EXCEPT !.failed = IF ok THEN @ ELSE "GetIssueDetails" ]
    /\ shown' = IF ok THEN shown ELSE MsgDetailsFailed
    /\ UNCHANGED <<auxVars, cfg, file, sink, source>>

\* a failure is a warning; then prepareBugDetails and the preview
GetLatestEvent(ok) ==
    /\ pc = "GetLatestEvent"
    /\ Outcome(ok)
    /\ calls' = Append(calls, "GetLatestEvent")
    /\ Goto([ Fault(pass, ok) EXCEPT
                !.event = ok,
                !.bug = prepareBugDetails(
                            IssueTable[pass.issue],
                            IF ok
                            THEN [ nil |-> FALSE,
                                   Values |-> IssueTable[pass.issue].LatestEvent ]
                            ELSE [ nil |-> TRUE, Values |-> << >> ]) ],
            "confirmCreate")
    /\ UNCHANGED <<auxVars, cfg, file, sink, source>>

\* a variant of AfterConfirmCreate that goes on after a "no"
AfterConfirmCreate_GoOn(answer) == "GetWorkflowStates"

\* where syncBugs goes after "Create this issue in Linear?"
AfterConfirmCreate(answer) == IF answer THEN "GetWorkflowStates" ELSE "menu"

confirmCreate(answer) ==
    /\ pc = "confirmCreate"
    /\ pc' = AfterConfirmCreate(answer)
    /\ pass' = [ pass EXCEPT !.create = IF answer THEN "yes" ELSE "no",
                             !.cancelled = IF answer THEN @ ELSE @ \cup {"create"} ]
    /\ UNCHANGED <<auxVars, cfg, file, shown, calls, sink, source>>

GetWorkflowStates(result) ==
    /\ pc = "GetWorkflowStates"
    /\ result \in {"error", "none", "states"}
    /\ Outcome(result # "error")
    /\ calls' = Append(calls, "GetWorkflowStates")
    /\ LET states == IF result = "states" THEN TeamStates ELSE <<>>
           p == [ Fault(pass, result # "error") EXCEPT !.states = states ]
       IN  IF Len(states) > 0
           THEN Goto(p, "selectState")
           ELSE Goto([ p EXCEPT !.i = 1 ], "GetOrCreateLabel")
    /\ UNCHANGED <<auxVars, cfg, file, sink, source>>

\* "Select issue state": a cancelled prompt leaves selectedStateID empty
selectState(choice) ==
    /\ pc = "selectState"
    /\ choice \in 0 .. Len(pass.states)
    /\ Goto([ pass EXCEPT !.stateID = IF choice = 0 THEN "" ELSE pass.states[choice],
                          !.cancelled = IF choice = 0 THEN @ \cup {"state"} ELSE @,
                          !.i = 1 ],
            "GetOrCreateLabel")
    /\ UNCHANGED <<auxVars, cfg, file, calls, sink, source>>

\* a variant of FindLabel whose filter leaves the name out
FindLabel_AnyName(labels, teamID, name) == { l \in labels : l.team = teamID }

\* a variant of FindLabel whose filter matches no label
FindLabel_None(labels, teamID, name) == {}

\* the nodes of the query GetLabel
FindLabel(labels, teamID, name) ==
    { l \in labels : l.team = teamID /\ l.name = name }

\* the id Linear gives the next label
NextLabelID == Cardinality(sink.labels) + 1

\* the loop "for _, label := range allLabels" moves on
NextLabel(p) ==
    Goto([ p EXCEPT !.i = @ + 1 ],
         IF p.i + 1 > Len(PassLabels) THEN "CreateIssue" ELSE "GetOrCreateLabel")

\* GetOrCreateLabel, "First, try to find existing label"
GetOrCreateLabel_Find(ok) ==
    /\ pc = "GetOrCreateLabel"
    /\ Outcome(ok)
    /\ calls' = Append(calls, "GetLabel")
    /\ LET label == PassLabels[pass.i]
           nodes == FindLabel(sink.labels, SelectedMapping.LinearTeamID, label)
       IN  IF ~ok
           THEN NextLabel([ Fault(pass, ok) EXCEPT !.warned = @ \cup {label} ])
           ELSE IF nodes # {}
           THEN \E l \in nodes : NextLabel([ pass EXCEPT !.labelIDs = Append(@, l.id) ])
           ELSE Goto(pass, "CreateLabel")
    /\ UNCHANGED <<auxVars, cfg, file, sink, source>>

\* GetOrCreateLabel, "Create new label if not found"
GetOrCreateLabel_Create(ok) ==
    /\ pc = "CreateLabel"
    /\ Outcome(ok)
    /\ calls' = Append(calls, "CreateLabel")
    /\ LET label == PassLabels[pass.i] IN
         IF ok
         THEN /\ sink' = [ sink EXCEPT !.labels = @ \cup
                             { [ id |-> NextLabelID,
                                 team |-> SelectedMapping.LinearTeamID,
                                 name |-> label ] } ]
              /\ NextLabel([ pass EXCEPT !.labelIDs = Append(@, NextLabelID) ])
         ELSE /\ UNCHANGED sink
              /\ NextLabel([ Fault(pass, ok) EXCEPT !.warned = @ \cup {label} ])
    /\ UNCHANGED <<auxVars, cfg, file, source>>

\* a variant of IssueCreate in which a failed request has created the issue
IssueCreate_Always(issues, ok, input) == Append(issues, input)

\* the issues of the workspace after the mutation issueCreate
IssueCreate(issues, ok, input) == IF ok THEN Append(issues, input) ELSE issues

\* a variant of AfterCreateIssue that sends the request again after an error
AfterCreateIssue_Retry(ok) == IF ok THEN "confirmResolve" ELSE "CreateIssue"

\* a variant of AfterCreateIssue that asks for the resolve after an error
AfterCreateIssue_GoOn(ok) == "confirmResolve"

\* where syncBugs goes after CreateIssue
AfterCreateIssue(ok) == IF ok THEN "confirmResolve" ELSE "menu"

CreateIssue(ok) ==
    /\ pc = "CreateIssue"
    /\ Outcome(ok)
    /\ calls' = Append(calls, "CreateIssue")
    /\ sink' = [ sink EXCEPT !.issues =
                   IssueCreate(@, ok,
                       [ teamId |-> SelectedMapping.LinearTeamID,
                         projectId |-> SelectedMapping.LinearProjectID,
                         title |-> pass.bug.Title,
                         description |-> pass.bug.Description,
                         labelIds |-> pass.labelIDs,
                         priority |-> pass.bug.Priority,
                         stateId |-> pass.stateID ]) ]
    /\ pc' = AfterCreateIssue(ok)
    /\ pass' = [ Fault(pass, ok) EXCEPT
                   !.linearIssue = IF ok THEN Len(sink.issues) + 1 ELSE @,
                   !.failed = IF ok THEN @ ELSE "CreateIssue" ]
    /\ shown' = IF ok THEN shown ELSE MsgCreateFailed
    /\ UNCHANGED <<auxVars, cfg, file, source>>

\* a variant of AfterConfirmResolve that resolves after a "no"
AfterConfirmResolve_GoOn(answer) == "ResolveIssue"

\* where syncBugs goes after "Mark this issue as resolved in Sentry?"
AfterConfirmResolve(answer) == IF answer THEN "ResolveIssue" ELSE "syncAnother"

confirmResolve(answer) ==
    /\ pc = "confirmResolve"
    /\ pc' = AfterConfirmResolve(answer)
    /\ pass' = [ pass EXCEPT !.resolve = IF answer THEN "yes" ELSE "no",
                             !.cancelled = IF answer THEN @ ELSE @ \cup {"resolve"} ]
    /\ UNCHANGED <<auxVars, cfg, file, shown, calls, sink, source>>

ResolveIssue(ok) ==
    /\ pc = "ResolveIssue"
    /\ Outcome(ok)
    /\ calls' = Append(calls, "ResolveIssue")
    /\ source' = IF ok THEN source \cup {pass.issue} ELSE source
    /\ pc' = "syncAnother"
    /\ pass' = Fault(pass, ok)
    /\ shown' = IF ok THEN shown ELSE MsgResolveFailed
    /\ UNCHANGED <<auxVars, cfg, file, sink>>

\* "Sync another issue from the same project?": yes is "return m.syncBugs(cfg)"
syncAnother(answer) ==
    /\ pc = "syncAnother"
    /\ IF answer
       THEN /\ pass.n < MaxPasses
            /\ pc' = "syncBugs"
            /\ pass' = [ NoPass EXCEPT !.n = pass.n + 1, !.faults = pass.faults,
                                       !.sink0 = sink, !.source0 = source ]
            /\ calls' = <<>>
            /\ shown' = MsgNone
       ELSE /\ pc' = "menu"
            /\ UNCHANGED <<pass, calls, shown>>
    /\ UNCHANGED <<auxVars, cfg, file, sink, source>>

----------------------------------------------------------------------------
(* The sync state machine: a configuration the menus and Load produce, a   *)
(* Linear workspace, and the passes of one run                              *)

\* Load of the legacy document with the mappings m1 (and m2)
ConfigMigrated ==
    Load(LegacyDoc(LegacyAPIKey, DefaultBaseURL,
                   [ k \in {"m1"} |-> LegacySentryProject("p1") ], LegacyAPIKey,
                   [ k \in {"L1"} |-> LegacyLinearProject ]),
         <<"m1">>)

ConfigTwoMappings ==
    Load(LegacyDoc(LegacyAPIKey, DefaultBaseURL,
                   [ k \in LegacyMappingNames |->
                       LegacySentryProject(IF k = "m1" THEN "p1" ELSE "p2") ],
                   LegacyAPIKey,
                   [ k \in {"L1"} |-> LegacyLinearProject ]),
         <<"m1", "m2">>)

\* then addConnection("c1", "default", "default")
ConfigTwoConnections ==
    [ ConfigMigrated EXCEPT !.BugManager.Connections =
        Append(@, [ Name |-> "c1", LinearInstance |-> "default",
                    SentryInstance |-> "default", ProjectMappings |-> <<>> ]) ]

\* the Sentry instance "default" replaced by "work" before a restart
ConfigDangling ==
    [ ConfigMigrated EXCEPT !.Sentry.Instances =
        [ k \in {"work"} |-> [ Name |-> "n1", APIKey |-> LegacyAPIKey,
                               BaseURL |-> DefaultBaseURL ] ] ]

\* then editProjectMapping, "Edit labels", input "level:error, bug, bug"
ConfigRepeatedLabels ==
    [ ConfigMigrated EXCEPT
        !.BugManager.Connections[1].ProjectMappings[1].DefaultLabels =
            ParseLabels(<<"level:error", "bug", "bug">>) ]

SyncConfigs ==
    { New, ConfigMigrated, ConfigTwoMappings, ConfigTwoConnections, ConfigDangling }

SyncSinks ==
    { EmptySink,
      [ labels |-> { [ id |-> 1, team |-> "T1", name |-> "bug" ] }, issues |-> <<>> ] }

SyncInit ==
    /\ cfg \in SyncConfigs
    /\ file = Save(cfg)
    /\ shown = MsgNone
    /\ pc = "menu"
    /\ pass = NoPass
    /\ calls = <<>>
    /\ sink \in SyncSinks
    /\ source = {}
    /\ NavIdle
    /\ writable = TRUE
    /\ CalcIdle

SyncNext ==
    \/ showMainMenu_SyncBugs
    \/ syncBugs_Enter
    \/ \E choice \in 0 .. MaxConns + 1 : selectConnection(choice)
    \/ \E choice \in 0 .. MaxMaps + 1 : selectMapping(choice)
    \/ \E ok \in BOOLEAN : GetUnresolvedIssues(ok)
    \/ \E choice \in 0 .. Len(ProjectIssueIDs) : selectIssue(choice)
    \/ \E ok \in BOOLEAN : GetIssueDetails(ok)
    \/ \E ok \in BOOLEAN : GetLatestEvent(ok)
    \/ \E answer \in BOOLEAN : confirmCreate(answer)
    \/ \E result \in {"error", "none", "states"} : GetWorkflowStates(result)
    \/ \E choice \in 0 .. Len(TeamStates) : selectState(choice)
    \/ \E ok \in BOOLEAN : GetOrCreateLabel_Find(ok)
    \/ \E ok \in BOOLEAN : GetOrCreateLabel_Create(ok)
    \/ \E ok \in BOOLEAN : CreateIssue(ok)
    \/ \E answer \in BOOLEAN : confirmResolve(answer)
    \/ \E ok \in BOOLEAN : ResolveIssue(ok)
    \/ \E answer \in BOOLEAN : syncAnother(answer)

SyncSpec == SyncInit /\ [][SyncNext]_vars

-----------------------------------------------------------------------------
(* Navigation: the prompts each Issue Manager function shows, and the      *)
(* error value it returns to its caller when a prompt is answered or       *)
(* cancelled (specification NavSpec)                                       *)

Nil == "nil"
\* types.ErrNavigateBack
ErrNavigateBack == "navigate back"
\* ui.GetInput, "if value == "" { return "", fmt.Errorf("cancelled") }"
ErrCancelled == "cancelled"
\* "return fmt.Errorf("failed to save configuration: %w", err)"
ErrSave == "failed to save configuration"

\* One prompt of a function: what the code does when it is cancelled (for a
\* confirmation: answered no) and when it is answered (confirmed).
Prompt(title, optional, cancel, answer) ==
    [ title |-> title, optional |-> optional, cancel |-> cancel, answer |-> answer ]

\* A function: the list it loops on ("": it walks its prompts in order),
\* the functions an entry of the list calls, its prompts, the value it
\* returns when a request between two prompts fails, and how it ends.
Function(list, callees, prompts, early, finish) ==
    [ list |-> list, callees |-> callees, prompts |-> prompts,
      early |-> early, finish |-> finish ]

Functions ==
    [ showMainMenu |->
        Function("Issue Manager",
                 {"syncBugs", "createManualIssue", "manageInstances", "manageConnections"},
                 <<>>, NoReturn, ""),
      manageInstances |->
        Function("Instance Management",
                 {"manageLinearInstances", "manageSentryInstances"}, <<>>, NoReturn, ""),
      manageLinearInstances |->
        Function("Linear Instances",
                 {"addLinearInstance", "editLinearInstance"}, <<>>, NoReturn, ""),
      manageSentryInstances |->
        Function("Sentry Instances",
                 {"addSentryInstance", "editSentryInstance"}, <<>>, NoReturn, ""),
      addLinearInstance |->
        Function("", {},
                 << Prompt("Instance key", FALSE, "return ErrNavigateBack", "go on"),
                    Prompt("Instance name", FALSE, "return ErrNavigateBack", "go on"),
                    Prompt("Linear API Key", FALSE, "return ErrNavigateBack", "go on"),
                    Prompt("Continue anyway?", TRUE, "return ErrNavigateBack", "go on") >>,
                 NoReturn, "save, return nil"),
      editLinearInstance |->
        Function("Edit Linear Instance", {},
                 << Prompt("Instance name", FALSE, "continue", "save, continue"),
                    Prompt("Linear API Key", FALSE, "continue", "save, continue"),
                    Prompt("Remove Linear instance?", FALSE, "continue",
                           "save, return ErrNavigateBack") >>,
                 NoReturn, ""),
      addSentryInstance |->
        Function("", {},
                 << Prompt("Instance key", FALSE, "return ErrNavigateBack", "go on"),
                    Prompt("Instance name", FALSE, "return ErrNavigateBack", "go on"),
                    Prompt("Sentry Base URL", FALSE, "return ErrNavigateBack", "go on"),
                    Prompt("Sentry API Key", FALSE, "return ErrNavigateBack", "go on"),
                    Prompt("Continue anyway?", TRUE, "return ErrNavigateBack", "go on") >>,
                 NoReturn, "save, return nil"),
      editSentryInstance |->
        Function("Edit Sentry Instance", {},
                 << Prompt("Instance name", FALSE, "continue", "save, continue"),
                    Prompt("Sentry Base URL", FALSE, "continue", "save, continue"),
                    Prompt("Sentry API Key", FALSE, "continue", "save, continue"),
                    Prompt("Remove Sentry instance?", FALSE, "continue",
                           "save, return ErrNavigateBack") >>,
                 NoReturn, ""),
      manageConnections |->
        Function("Sentry-Linear Connections",
                 {"addConnection", "editConnection"}, <<>>, NoReturn, ""),
      addConnection |->
        Function("", {},
                 << Prompt("Connection name", FALSE, "return ErrNavigateBack", "go on"),
                    Prompt("Select Sentry instance", FALSE, "return ErrNavigateBack", "go on"),
                    Prompt("Select Linear instance", FALSE, "return ErrNavigateBack",
                           "save, go on"),
                    Prompt("Would you like to add project mappings now?", FALSE,
                           "return nil", "return m.editConnection") >>,
                 ErrNavigateBack, "return nil"),
      editConnection |->
        Function("Edit Connection", {"manageProjectMappings"},
                 << Prompt("Connection name", FALSE, "continue", "save, continue"),
                    Prompt("Select Sentry instance", FALSE, "continue", "save, continue"),
                    Prompt("Select Linear instance", FALSE, "continue", "save, continue"),
                    Prompt("Remove connection?", FALSE, "continue",
                           "save, return ErrNavigateBack") >>,
                 NoReturn, ""),
      manageProjectMappings |->
        Function("Project Mappings",
                 {"addProjectMapping", "editProjectMapping"}, <<>>, NoReturn, ""),
      addProjectMapping |->
        Function("", {},
                 << Prompt("Select Sentry project", FALSE, "return ErrNavigateBack", "go on"),
                    Prompt("Select Linear team", FALSE, "return ErrNavigateBack", "go on"),
                    Prompt("Select Linear project (optional)", FALSE,
                           "return ErrNavigateBack", "go on"),
                    Prompt("Default labels", FALSE, "return ErrNavigateBack", "go on") >>,
                 ErrNavigateBack, "save, return nil"),
      editProjectMapping |->
        Function("Edit Mapping", {},
                 << Prompt("Default labels (comma-separated)", FALSE,
                           "return ErrNavigateBack", "save, return nil"),
                    Prompt("Remove this project mapping?", FALSE, "return nil",
                           "save, return ErrNavigateBack") >>,
                 NoReturn, ""),
      createManualIssue |->
        Function("", {},
                 << Prompt("Select Linear instance", TRUE, "return ErrNavigateBack", "go on"),
                    Prompt("Select team", FALSE, "return ErrNavigateBack", "go on"),
                    Prompt("Select project (optional)", TRUE, "return ErrNavigateBack", "go on"),
                    Prompt("Select issue type", FALSE, "return ErrNavigateBack", "go on"),
                    Prompt("Issue Title", FALSE, "return ErrNavigateBack", "go on"),
                    Prompt("Select priority", FALSE, "return ErrNavigateBack", "go on"),
                    Prompt("Labels", FALSE, "return ErrNavigateBack", "go on"),
                    Prompt("Select initial state", TRUE, "return ErrNavigateBack", "go on"),
                    Prompt("Create this issue in Linear?", FALSE,
                           "return ErrNavigateBack", "go on") >>,
                 Nil, "return nil"),
      syncBugs |->
        Function("", {},
                 << Prompt("Select connection to sync", TRUE, "return ErrNavigateBack", "go on"),
                    Prompt("Select project to sync from", TRUE, "return ErrNavigateBack", "go on"),
                    Prompt("Select issue to sync to Linear", FALSE,
                           "return ErrNavigateBack", "go on"),
                    Prompt("Create this issue in Linear?", FALSE,
                           "return ErrNavigateBack", "go on"),
                    Prompt("Select issue state", TRUE, "go on", "go on"),
                    Prompt("Mark this issue as resolved in Sentry?", FALSE, "go on", "go on"),
                    Prompt("Sync another issue from the same project?", FALSE,
                           "return nil", "return m.syncBugs") >>,
                 Nil, "return nil") ]

\* the running function and the prompt it shows (0: its list)
Top == stack[Len(stack)]

\* a prompt is open
AtPrompt == stack # <<>> /\ ret = NoReturn

\* the prompts that can follow prompt "at" of fn: an optional prompt is
\* shown or skipped; Len + 1 stands for the end of the function
NextAts(fn, at) ==
    LET ps == Functions[fn].prompts
    IN  { k \in at + 1 .. Len(ps) + 1 : \A j \in at + 1 .. k - 1 : ps[j].optional }

\* where a called function shows its first prompt
Entry(fn) == IF Functions[fn].list # "" THEN {0} ELSE NextAts(fn, 0)

ReturnValue(err) ==
    /\ stack' = SubSeq(stack, 1, Len(stack) - 1)
    /\ ret' = err

Move(at) ==
    /\ stack' = [ stack EXCEPT ![Len(stack)].at = at ]
    /\ UNCHANGED ret

\* "return m.f(cfg)": the callee's value is the caller's
TailCall(fn) ==
    /\ \E at \in Entry(fn) : stack' = [ stack EXCEPT ![Len(stack)] = [ fn |-> fn, at |-> at ] ]
    /\ UNCHANGED ret

\* on to the next prompt, or to the end of the function
GoOn(saved) ==
    \E at \in NextAts(Top.fn, Top.at) :
        IF at <= Len(Functions[Top.fn].prompts)
        THEN Move(at)
        ELSE ReturnValue(IF Functions[Top.fn].finish = "save, return nil" /\ ~saved
                         THEN ErrSave ELSE Nil)

\* what the code does after a prompt; saved: config.Save returned nil
Do(how, saved) ==
    CASE how = "return err" -> ReturnValue(ErrCancelled)
      [] how = "return ErrNavigateBack" -> ReturnValue(ErrNavigateBack)
      [] how = "return nil" -> ReturnValue(Nil)
      [] how = "continue" -> Move(0)
      [] how = "go on" -> GoOn(saved)
      [] how = "save, go on" -> IF saved THEN GoOn(saved) ELSE ReturnValue(ErrSave)
      [] how = "save, continue" -> IF saved THEN Move(0) ELSE ReturnValue(ErrSave)
      [] how = "save, return nil" -> ReturnValue(IF saved THEN Nil ELSE ErrSave)
      [] how = "save, return ErrNavigateBack" ->
            ReturnValue(IF saved THEN ErrNavigateBack ELSE ErrSave)
      [] how = "return m.editConnection" -> TailCall("editConnection")
      [] how = "return m.syncBugs" -> TailCall("syncBugs")

\* "if err := m.f(cfg); err != nil && err != types.ErrNavigateBack { return err }"
IsFailure(err) == err # Nil /\ err # ErrNavigateBack

\* main, "if err := module.Execute(cfg); err != nil"
MainOutcome(err) ==
    IF err = Nil THEN "Task completed successfully!"
    ELSE IF err = ErrNavigateBack THEN "menu"
    ELSE "Error executing module: " \o err

\* main calls Execute, Execute calls showMainMenu
main_Execute ==
    /\ stack = <<>>
    /\ ret = NoReturn
    /\ stack' = << [ fn |-> "showMainMenu", at |-> 0 ] >>
    /\ UNCHANGED <<ret, outcome>>
    /\ UNCHANGED <<cfgVars, syncVars, selectedIssue, bugDetails, writable>>

\* an entry of a list that calls a function
Select_Call(fn) ==
    /\ AtPrompt
    /\ Top.at = 0
    /\ fn \in Functions[Top.fn].callees
    /\ \E at \in Entry(fn) : stack' = Append(stack, [ fn |-> fn, at |-> at ])
    /\ UNCHANGED <<ret, outcome>>
    /\ UNCHANGED <<cfgVars, syncVars, selectedIssue, bugDetails, writable>>

\* an entry of a list that opens a prompt of the same function
Select_Prompt ==
    /\ AtPrompt
    /\ Top.at = 0
    /\ \E k \in 1 .. Len(Functions[Top.fn].prompts) : Move(k)
    /\ UNCHANGED outcome
    /\ UNCHANGED <<cfgVars, syncVars, selectedIssue, bugDetails, writable>>

\* the entry "Back"
Select_Back ==
    /\ AtPrompt
    /\ Top.at = 0
    /\ ReturnValue(ErrNavigateBack)
    /\ UNCHANGED outcome
    /\ UNCHANGED <<cfgVars, syncVars, selectedIssue, bugDetails, writable>>

\* the prompt is answered (a confirmation: with yes)
Answer(saved) ==
    /\ AtPrompt
    /\ Top.at > 0
    /\ Do(Functions[Top.fn].prompts[Top.at].answer, saved)
    /\ UNCHANGED outcome
    /\ UNCHANGED <<cfgVars, syncVars, selectedIssue, bugDetails, writable>>

\* Esc or Ctrl+C at the prompt (a confirmation: also the answer no);
\* every list is "choice, err := ui.SelectFromList(...); if err != nil { return err }"
Cancel ==
    /\ AtPrompt
    /\ Do(IF Top.at = 0 THEN "return err" ELSE Functions[Top.fn].prompts[Top.at].cancel, TRUE)
    /\ UNCHANGED outcome
    /\ UNCHANGED <<cfgVars, syncVars, selectedIssue, bugDetails, writable>>

\* Enter on the empty input of a text prompt whose validator is nil (the
\* labels prompts): the program quits with the value "", and GetInput
\* returns "cancelled" for it as it does after Esc
SubmitEmpty ==
    /\ AtPrompt
    /\ Top.at > 0
    /\ Functions[Top.fn].prompts[Top.at].title
          \in {"Labels", "Default labels", "Default labels (comma-separated)"}
    /\ Do(Functions[Top.fn].prompts[Top.at].cancel, TRUE)
    /\ UNCHANGED outcome
    /\ UNCHANGED <<cfgVars, syncVars, selectedIssue, bugDetails, writable>>

\* a request the function makes before its next prompt fails
RequestFails ==
    /\ AtPrompt
    /\ Top.at > 0
    /\ Functions[Top.fn].early # NoReturn
    /\ ReturnValue(Functions[Top.fn].early)
    /\ UNCHANGED outcome
    /\ UNCHANGED <<cfgVars, syncVars, selectedIssue, bugDetails, writable>>

\* the calling list receives the callee's value
Returned ==
    /\ stack # <<>>
    /\ ret # NoReturn
    /\ IF IsFailure(ret)
       THEN ReturnValue(ret)
       ELSE ret' = NoReturn /\ UNCHANGED stack
    /\ UNCHANGED outcome
    /\ UNCHANGED <<cfgVars, syncVars, selectedIssue, bugDetails, writable>>

\* main receives the value of Execute
main_Returned ==
    /\ stack = <<>>
    /\ ret # NoReturn
    /\ outcome' = MainOutcome(ret)
    /\ ret' = NoReturn
    /\ UNCHANGED stack
    /\ UNCHANGED <<cfgVars, syncVars, selectedIssue, bugDetails, writable>>

NavInit ==
    /\ cfg = New
    /\ file = Save(cfg)
    /\ shown = MsgNone
    /\ SyncIdle
    /\ NavIdle
    /\ writable = TRUE
    /\ CalcIdle

NavNext ==
    \/ main_Execute
    \/ \E fn \in DOMAIN Functions : Select_Call(fn)
    \/ Select_Prompt
    \/ Select_Back
    \/ \E saved \in BOOLEAN : Answer(saved)
    \/ SubmitEmpty
    \/ Cancel
    \/ RequestFails
    \/ Returned
    \/ main_Returned

NavSpec == NavInit /\ [][NavNext]_vars

-----------------------------------------------------------------------------
(* The fields syncBugs derives from the selected issue, and the issue it   *)
(* creates from them when every request succeeds (specification DeriveSpec)*)

\* the values of SentryIssue.Level; "sample" is one calculatePriority does not name
Levels == {"fatal", "critical", "error", "warning", "info", "debug", "sample"}

\* the issues a project can hold
SentryIssues ==
    { [ ID |-> "i1", ShortID |-> "ABC-1", Title |-> "NullPointer", Level |-> level,
        Platform |-> "go", UserCount |-> userCount, Project |-> "p1",
        Permalink |-> "https://sentry.io/issues/i1",
        LatestEvent |-> << << [ InApp |-> TRUE, LineNo |-> 10 ] >> >> ]
      : level \in Levels, userCount \in 0 .. MaxUserCount }

\* GetOrCreateLabel for each of names in turn, every request succeeding:
\* the labels of the workspace afterwards, and the ids collected
RECURSIVE GetOrCreateLabels(_, _, _, _)
GetOrCreateLabels(labels, teamID, names, ids) ==
    IF names = <<>>
    THEN [ labels |-> labels, ids |-> ids ]
    ELSE LET nodes == FindLabel(labels, teamID, Head(names))
             id == IF nodes # {} THEN (CHOOSE l \in nodes : TRUE).id
                   ELSE Cardinality(labels) + 1
         IN  GetOrCreateLabels(
                 labels \cup { [ id |-> id, team |-> teamID, name |-> Head(names) ] },
                 teamID, Tail(names), Append(ids, id))

\* "bugDetails := m.prepareBugDetails(*issueDetails, latestEvent)"
syncBugs_prepareBugDetails(event) ==
    /\ pc = "prepareBugDetails"
    /\ bugDetails' = prepareBugDetails(
                         selectedIssue,
                         IF event
                         THEN [ nil |-> FALSE, Values |-> selectedIssue.LatestEvent ]
                         ELSE [ nil |-> TRUE, Values |-> << >> ])
    /\ pc' = "GetOrCreateLabels"
    /\ UNCHANGED <<cfgVars, pass, calls, sink, source, stack, ret, outcome,
                   selectedIssue, writable>>

\* the loop "for _, label := range allLabels"
syncBugs_GetOrCreateLabels ==
    /\ pc = "GetOrCreateLabels"
    /\ LET done == GetOrCreateLabels(sink.labels, SelectedMapping.LinearTeamID,
                                     allLabels(SelectedMapping, selectedIssue), <<>>)
       IN  /\ sink' = [ sink EXCEPT !.labels = done.labels ]
           /\ pass' = [ pass EXCEPT !.labelIDs = done.ids ]
    /\ pc' = "CreateIssue"
    /\ UNCHANGED <<cfgVars, calls, source, auxVars>>

\* "linearIssue, err := linearClient.CreateIssue(...)", err == nil
syncBugs_CreateIssue ==
    /\ pc = "CreateIssue"
    /\ sink' = [ sink EXCEPT !.issues =
                   IssueCreate(@, TRUE,
                       [ teamId |-> SelectedMapping.LinearTeamID,
                         projectId |-> SelectedMapping.LinearProjectID,
                         title |-> bugDetails.Title,
                         description |-> bugDetails.Description,
                         labelIds |-> pass.labelIDs,
                         priority |-> bugDetails.Priority,
                         stateId |-> pass.stateID ]) ]
    /\ pc' = "created"
    /\ UNCHANGED <<cfgVars, pass, calls, source, auxVars>>

DeriveInit ==
    /\ cfg \in {ConfigMigrated, ConfigRepeatedLabels}
    /\ file = Save(cfg)
    /\ shown = MsgNone
    /\ pc = "prepareBugDetails"
    /\ pass = [ NoPass EXCEPT !.n = 1, !.conn = 1, !.mapping = 1 ]
    /\ calls = <<>>
    /\ sink \in SyncSinks
    /\ source = {}
    /\ NavIdle
    /\ writable = TRUE
    /\ selectedIssue \in SentryIssues
    /\ bugDetails = "none"

DeriveNext ==
    \/ \E event \in BOOLEAN : syncBugs_prepareBugDetails(event)
    \/ syncBugs_GetOrCreateLabels
    \/ syncBugs_CreateIssue

DeriveSpec == DeriveInit /\ [][DeriveNext]_vars

-----------------------------------------------------------------------------
(* config.Load of a stored document, config.Save of what it returned, and  *)
(* config.Load again (specification LoadSpec)                              *)

\* the documents config.yaml can hold: the legacy fields, the instance
\* tables and the connection list, each empty or filled
StoredDocs ==
    { [ LegacyDoc(sentryKey, baseURL, sentryProjects, linearKey, linearProjects) EXCEPT
          !.sentry.instances = sentryInstances,
          !.linear.instances = linearInstances,
          !.bug_manager.connections = connections ]
      : sentryKey \in {"", LegacyAPIKey}, baseURL \in {"", DefaultBaseURL},
        sentryProjects \in LegacySentryTables,
        linearKey \in {"", LegacyAPIKey},
        linearProjects \in { EmptyMap, [ k \in {"L1"} |-> LegacyLinearProject ] },
        sentryInstances \in
            { EmptyMap,
              [ k \in {"work"} |-> [ name |-> "n1", api_key |-> LegacyAPIKey,
                                     base_url |-> DefaultBaseURL ] ] },
        linearInstances \in
            { EmptyMap,
              [ k \in {"work"} |-> [ name |-> "n1", api_key |-> LegacyAPIKey ] ] },
        connections \in
            { <<>>,
              << [ name |-> "c1", linear_instance |-> "work",
                   sentry_instance |-> "work", project_mappings |-> <<>> ] >> } }

\* main, "cfg, err := config.Load()": of the stored document, and in the
\* next run of the program of the saved one
config_Load ==
    /\ pc \in {"start", "saved"}
    /\ cfg' \in Loads(file)
    /\ pc' = IF pc = "start" THEN "loaded" ELSE "reloaded"
    /\ UNCHANGED <<file, shown, pass, calls, sink, source, auxVars>>

\* main, "config.Save(cfg)" after a module returned nil
config_Save ==
    /\ pc \in {"loaded", "reloaded"}
    /\ file' = IF writable THEN Save(cfg) ELSE file
    /\ pc' = "saved"
    /\ UNCHANGED <<cfg, shown, pass, calls, sink, source, auxVars>>

\* yaml.Unmarshal has filled cfg; the defaults and the migration are to come
LoadInit ==
    /\ file \in StoredDocs
    /\ cfg = Unmarshal(file)
    /\ shown = MsgNone
    /\ pc = "start"
    /\ pass = NoPass
    /\ calls = <<>>
    /\ sink = EmptySink
    /\ source = {}
    /\ NavIdle
    /\ writable = TRUE
    /\ CalcIdle

LoadNext ==
    \/ config_Load
    \/ config_Save

LoadSpec == LoadInit /\ [][LoadNext]_vars

-----------------------------------------------------------------------------
(* Two runs of the program resolving the labels of the same issue against  *)
(* one Linear workspace, each request of GetOrCreateLabel a step           *)
(* (specification RaceSpec)                                                *)

Runs == {"run1", "run2"}

\* the label list of the loop "for _, label := range allLabels" of both runs
RaceLabels ==
    allLabels(ConfigMigrated.BugManager.Connections[1].ProjectMappings[1],
              IssueTable["i1"])

\* one request of GetOrCreateLabel of run r: the lookup ("First, try to find
\* existing label"), and after a lookup that found nothing the mutation
\* ("Create new label if not found"); a failed request is warned about and
\* the loop moves on
Race_GetOrCreateLabel(r, ok) ==
    LET label == RaceLabels[pass[r].i]
        teamID == ConfigMigrated.BugManager.Connections[1].ProjectMappings[1].LinearTeamID
        nodes == FindLabel(sink.labels, teamID, label)
        next(locals) ==
            /\ pass' = [ pass EXCEPT ![r] = [ locals EXCEPT !.i = @ + 1 ] ]
            /\ pc' = [ pc EXCEPT ![r] = IF locals.i + 1 > Len(RaceLabels)
                                        THEN "CreateIssue" ELSE "GetOrCreateLabel" ]
    IN  /\ UNCHANGED <<cfgVars, calls, source, auxVars>>
        /\ \/ /\ pc[r] = "GetOrCreateLabel"
              /\ UNCHANGED sink
              /\ IF ~ok
                 THEN next([ pass[r] EXCEPT !.warned = @ \cup {label} ])
                 ELSE IF nodes # {}
                 THEN \E l \in nodes :
                         next([ pass[r] EXCEPT !.labelIDs = Append(@, l.id) ])
                 ELSE pc' = [ pc EXCEPT ![r] = "CreateLabel" ] /\ UNCHANGED pass
           \/ /\ pc[r] = "CreateLabel"
              /\ IF ok
                 THEN /\ sink' = [ sink EXCEPT !.labels = @ \cup
                                     { [ id |-> NextLabelID, team |-> teamID,
                                         name |-> label ] } ]
                      /\ next([ pass[r] EXCEPT !.labelIDs = Append(@, NextLabelID),
                                               !.created = @ \cup {NextLabelID} ])
                 ELSE /\ UNCHANGED sink
                      /\ next([ pass[r] EXCEPT !.warned = @ \cup {label} ])

RaceInit ==
    /\ cfg = ConfigMigrated
    /\ file = Save(cfg)
    /\ shown = MsgNone
    /\ pc = [ r \in Runs |-> "GetOrCreateLabel" ]
    /\ pass = [ r \in Runs |-> [ i |-> 1, labelIDs |-> <<>>, warned |-> {}, created |-> {} ] ]
    /\ calls = <<>>
    /\ sink \in SyncSinks
    /\ source = {}
    /\ NavIdle
    /\ writable = TRUE
    /\ CalcIdle

RaceNext == \E r \in Runs, ok \in BOOLEAN : Race_GetOrCreateLabel(r, ok)

RaceSpec == RaceInit /\ [][RaceNext]_vars

----------------------------------------------------------------------------
(* Properties of the configuration (specification Spec)                    *)

\* C1: in every reachable configuration state every connection's
\* SentryInstance is a key of Sentry.Instances and its LinearInstance is a
\* key of Linear.Instances.
C1_ReferentialIntegrity ==
    \A i \in 1 .. Len(Connections) :
        /\ Connections[i].SentryInstance \in DOMAIN cfg.Sentry.Instances
        /\ Connections[i].LinearInstance \in DOMAIN cfg.Linear.Instances

LinearReferenced(key) ==
    \E i \in 1 .. Len(Connections) : Connections[i].LinearInstance = key

SentryReferenced(key) ==
    \E i \in 1 .. Len(Connections) : Connections[i].SentryInstance = key

\* C2: removing an instance of either kind whose key is referenced by a
\* connection is refused with the error "Cannot remove instance ...", and
\* the refused attempt leaves the instance maps, the connections and the
\* stored document unchanged; no step at all takes a referenced instance
\* out of the config or out of the stored document.
C2_InUseRemovalRefused ==
    [][ \A key \in InstanceKeys :
          /\ \A confirm \in BOOLEAN :
                editLinearInstance_Remove(key, confirm) /\ LinearReferenced(key)
                    => shown' = MsgInUse /\ cfg' = cfg /\ file' = file
          /\ \A confirm \in BOOLEAN :
                editSentryInstance_Remove(key, confirm) /\ SentryReferenced(key)
                    => shown' = MsgInUse /\ cfg' = cfg /\ file' = file
          /\ key \in DOMAIN cfg.Linear.Instances /\ LinearReferenced(key)
                => /\ key \in DOMAIN cfg'.Linear.Instances
                   /\ key \in DOMAIN file.linear.instances
                         => key \in DOMAIN file'.linear.instances
          /\ key \in DOMAIN cfg.Sentry.Instances /\ SentryReferenced(key)
                => /\ key \in DOMAIN cfg'.Sentry.Instances
                   /\ key \in DOMAIN file.sentry.instances
                         => key \in DOMAIN file'.sentry.instances
      ]_vars

\* a removal has just been refused: the instance "default" is still there,
\* referenced by a connection of the config and of the stored document
C2_RefusedRemoval ==
    /\ shown = MsgInUse
    /\ Len(Connections) > 0
    /\ LinearReferenced("default") \/ SentryReferenced("default")
    /\ file = Save(cfg)

\* C9: in every reachable configuration state no two connections have the
\* same name.
C9_ConnectionNamesUnique ==
    \A i, j \in 1 .. Len(Connections) :
        i # j => Connections[i].Name # Connections[j].Name

\* C10: in every reachable configuration state no connection has two
\* project mappings with the same (SentryOrganization, SentryProject) pair.
C10_MappingPairsUnique ==
    \A i \in 1 .. Len(Connections) :
        \A j, k \in 1 .. Len(Connections[i].ProjectMappings) :
            j # k =>
                \/ Connections[i].ProjectMappings[j].SentryOrganization
                     # Connections[i].ProjectMappings[k].SentryOrganization
                \/ Connections[i].ProjectMappings[j].SentryProject
                     # Connections[i].ProjectMappings[k].SentryProject

\* C11: an add of an instance with a key its kind's map already holds is
\* refused (the prompt shows "already exists" and nothing changes); no add
\* step is ever taken with such a key, and every add step leaves the
\* instances already stored as they were.
C11_DuplicateKeyRejected ==
    [][ \A key \in InstanceKeys :
          /\ addLinearInstance_KeyExists(key) \/ addSentryInstance_KeyExists(key)
                => shown' = MsgKeyExists /\ cfg' = cfg /\ file' = file
          /\ (\E name \in InstanceNames, apiKey \in NewAPIKeys :
                 addLinearInstance(key, name, apiKey))
                => /\ key \notin DOMAIN cfg.Linear.Instances
                   /\ \A k \in DOMAIN cfg.Linear.Instances :
                         /\ k \in DOMAIN cfg'.Linear.Instances
                         /\ cfg'.Linear.Instances[k] = cfg.Linear.Instances[k]
          /\ (\E name \in InstanceNames, apiKey \in NewAPIKeys :
                 addSentryInstance(key, name, DefaultBaseURL, apiKey))
                => /\ key \notin DOMAIN cfg.Sentry.Instances
                   /\ \A k \in DOMAIN cfg.Sentry.Instances :
                         /\ k \in DOMAIN cfg'.Sentry.Instances
                         /\ cfg'.Sentry.Instances[k] = cfg.Sentry.Instances[k]
      ]_vars

\* an add was just refused and the migrated instance "default" is intact
\* next to an added one
C11_RefusedAdd ==
    /\ shown = MsgKeyExists
    /\ DOMAIN cfg.Linear.Instances = {"default", "work"}
    /\ cfg.Linear.Instances["default"].Name = "Default Linear"
    /\ file = Save(cfg)

----------------------------------------------------------------------------
(* Properties of the sync pass (specification SyncSpec)                    *)

\* the number of mutating requests in a call log
MutatingCount(log) == Len(SelectSeq(log, LAMBDA c : c \in MutatingCalls))

\* the names of the labels whose ids were sent with an issue
IssueLabelNames(issue) ==
    { l.name : l \in { x \in sink.labels : x.id \in Range(issue.labelIds) } }

\* C3: in any sync pass no Linear request of any kind (workflow-state
\* query, label lookup, label creation, issue creation) is issued before the
\* confirmation "Create this issue in Linear?" is answered yes, and none is
\* issued after it is declined: declining ends the pass.
C3_NoLinearCallWithoutYes ==
    /\ (\E k \in 1 .. Len(calls) : calls[k] \in LinearCalls) => pass.create = "yes"
    /\ pc \in {"GetWorkflowStates", "selectState", "GetOrCreateLabel", "CreateLabel",
               "CreateIssue"} => pass.create = "yes"
    /\ pass.create = "no" => pc = "menu" /\ sink = pass.sink0

\* the confirmation was declined after the three reads of the source
C3_Declined ==
    /\ pass.create = "no"
    /\ calls = <<"GetUnresolvedIssues", "GetIssueDetails", "GetLatestEvent">>

\* C4 as stated: the label ids sent with every created issue include the id
\* of every default label of the selected mapping, whatever the outcome of
\* the GetOrCreateLabel calls.
C4_DefaultLabelsAlways ==
    pass.linearIssue # 0 =>
        Range(SelectedMapping.DefaultLabels)
            \subseteq IssueLabelNames(sink.issues[pass.linearIssue])

\* C4 amended: the label ids sent with a created issue are the ones the
\* pass collected, and they include the id of every default label of the
\* selected mapping whose GetOrCreateLabel call did not fail (a failed call
\* is a warning and the label is skipped).
C4_DefaultLabelsUnlessWarned ==
    pass.linearIssue # 0 =>
        /\ sink.issues[pass.linearIssue].labelIds = pass.labelIDs
        /\ (Range(SelectedMapping.DefaultLabels) \ pass.warned)
              \subseteq IssueLabelNames(sink.issues[pass.linearIssue])

\* an issue was created with one default label attached and one skipped
C4_CreatedWithSkippedLabel ==
    /\ pass.linearIssue # 0
    /\ Range(SelectedMapping.DefaultLabels) \cap pass.warned # {}
    /\ Range(SelectedMapping.DefaultLabels) \ pass.warned # {}

\* C5 as stated: whenever the pass ends after the confirmation without
\* having created the issue, the sink holds no label created by this pass.
C5_NoLabelLeftAfterFailure ==
    pc = "menu" /\ pass.create = "yes" /\ pass.linearIssue = 0
        => sink.labels = pass.sink0.labels

\* C5 amended: when CreateIssue fails the pass reports the error and ends;
\* no issue was created and the source issue was not resolved, but the
\* labels the pass found or created are all still in the sink: label
\* creation is not undone.
C5_FailedCreateKeepsLabels ==
    pass.failed = "CreateIssue" =>
        /\ pc = "menu"
        /\ shown = MsgCreateFailed
        /\ sink.issues = pass.sink0.issues
        /\ source = pass.source0
        /\ pass.sink0.labels \subseteq sink.labels
        /\ \A id \in Range(pass.labelIDs) : \E l \in sink.labels : l.id = id

\* CreateIssue failed after the pass had created labels
C5_FailedAfterLabels ==
    /\ pass.failed = "CreateIssue"
    /\ sink.labels # pass.sink0.labels

\* C6 as stated: after the user cancels any prompt of a pass (connection,
\* mapping or issue selection, create confirmation, workflow-state
\* selection, resolve confirmation) the pass issues no further mutating
\* call (label creation, issue creation, source issue resolution).
C6_CancelAborts ==
    [][ pass.cancelled # {} /\ pass'.n = pass.n
            => MutatingCount(calls') = MutatingCount(calls) ]_vars

\* C6 amended: after the user cancels the connection, mapping or issue
\* selection or declines the create confirmation the pass has ended; after
\* any cancelled prompt other than the workflow-state selection the pass
\* issues no further mutating call; a cancelled workflow-state selection
\* does not abort: the pass goes on and the issue it creates carries no
\* stateId.
C6_CancelAbortsExceptState ==
    [][ /\ pass.cancelled \cap {"connection", "mapping", "issue", "create"} # {}
            => pc = "menu"
        /\ pass.cancelled \ {"state"} # {} /\ pass'.n = pass.n
            => MutatingCount(calls') = MutatingCount(calls)
        /\ "state" \in pass.cancelled /\ pass.linearIssue = 0 /\ pass'.linearIssue # 0
            => sink'.issues[pass'.linearIssue].stateId = ""
      ]_vars

\* the state selection was cancelled, the issue was created all the same,
\* and the declined resolve confirmation ended the pass
C6_CancelledStateThenResolve ==
    /\ pass.cancelled = {"state", "resolve"}
    /\ pass.linearIssue # 0
    /\ "CreateIssue" \in Range(calls)
    /\ "ResolveIssue" \notin Range(calls)
    /\ pc = "menu"

\* C7: ResolveIssue is called only after CreateIssue returned success in
\* the same pass and the user answered yes to the resolve confirmation; the
\* resolve confirmation is asked only after an issue was created; when
\* CreateIssue fails the pass ends without asking for or attempting the
\* resolve.
C7_ResolveOnlyAfterCreate ==
    /\ \A k \in 1 .. Len(calls) :
          calls[k] = "ResolveIssue"
              => /\ \E j \in 1 .. k - 1 : calls[j] = "CreateIssue"
                 /\ pass.linearIssue # 0
                 /\ pass.resolve = "yes"
    /\ pc = "ResolveIssue" => pass.linearIssue # 0 /\ pass.resolve = "yes"
    /\ pc = "confirmResolve" \/ pass.resolve # "" => pass.linearIssue # 0
    /\ pass.failed = "CreateIssue"
          => pc = "menu" /\ pass.resolve = "" /\ "ResolveIssue" \notin Range(calls)

\* the source issue was resolved after its Linear issue was created
C7_Resolved ==
    /\ "ResolveIssue" \in Range(calls)
    /\ pass.issue \in source
    /\ pass.linearIssue = Len(sink.issues)

\* C8: if a required read fails (listing the unresolved issues, fetching
\* the issue detail, or resolving the connection's instances) the pass
\* reports the error and ends with the sink and the source as it found
\* them: no label created, no issue created, no source issue resolved.
C8_RequiredReadFailureAborts ==
    pass.failed \in {"instances", "GetUnresolvedIssues", "GetIssueDetails"} =>
        /\ pc = "menu"
        /\ shown = ( IF pass.failed = "instances" THEN MsgInvalidInstance
                     ELSE IF pass.failed = "GetUnresolvedIssues" THEN MsgFetchFailed
                     ELSE MsgDetailsFailed )
        /\ sink = pass.sink0
        /\ source = pass.source0
        /\ MutatingCount(calls) = 0

\* the issue detail could not be fetched in a second pass, after a first
\* pass that created an issue
C8_DetailsFailed ==
    /\ pass.failed = "GetIssueDetails"
    /\ calls = <<"GetUnresolvedIssues", "GetIssueDetails">>
    /\ Len(sink.issues) > 0

-----------------------------------------------------------------------------
(* Properties of the navigation (specification NavSpec)                    *)

\* C12: cancelling a prompt of the Issue Manager is never reported to main
\* as a failure: no error made by a cancelled prompt is returned to a caller,
\* and main never shows "Error executing module" for it.
C12_CancelIsNeverAFailure ==
    /\ ret # ErrCancelled
    /\ outcome # "Error executing module: cancelled"

-----------------------------------------------------------------------------
(* Properties of the derived fields (specification DeriveSpec)             *)

Severities == {"fatal", "critical", "error", "warning", "info", "debug"}

\* the base priority the rule gives a severity
ReferenceBase(level) ==
    CASE level \in {"fatal", "critical"} -> 1
      [] level = "error" -> 2
      [] level = "warning" -> 3
      [] level \in {"info", "debug"} -> 4

\* 1 above 100 users, min(base, 2) above 50, base otherwise
ReferencePriority(level, userCount) ==
    LET base == ReferenceBase(level)
    IN  IF userCount > 100 THEN 1
        ELSE IF userCount > 50 THEN (IF base < 2 THEN base ELSE 2)
        ELSE base

Derived == pc # "prepareBugDetails"

\* C13: for every severity in {fatal, critical, error, warning, info, debug}
\* and every user count of the range, the priority calculatePriority gives
\* is the reference rule's (base 1/2/3/4; 1 above 100 users, min(base, 2)
\* above 50, base otherwise), and it is never larger than the base.
C13_PriorityIsReferenceRule ==
    Derived /\ selectedIssue.Level \in Severities
    => /\ bugDetails.Priority
            = ReferencePriority(selectedIssue.Level, selectedIssue.UserCount)
       /\ bugDetails.Priority <= ReferenceBase(selectedIssue.Level)

\* a warning seen by more than 50 users was escalated from 3 to 2
C13_Escalated ==
    /\ Derived
    /\ selectedIssue.Level = "warning"
    /\ selectedIssue.UserCount > 50
    /\ selectedIssue.UserCount <= 100
    /\ bugDetails.Priority = 2

\* C14: for a fixed severity the priority is monotonic in the user count:
\* no issue with at least as many users gets a numerically larger priority
\* (and none with at most as many a smaller one); severity error gives 2 at
\* 10 users, at most 2 at 60 and 1 at 150.
C14_PriorityMonotonic ==
    Derived /\ selectedIssue.Level \in Severities
    => /\ \A u \in 0 .. MaxUserCount :
            LET other == calculatePriority([ selectedIssue EXCEPT !.UserCount = u ])
            IN  /\ selectedIssue.UserCount <= u => other <= bugDetails.Priority
                /\ u <= selectedIssue.UserCount => bugDetails.Priority <= other
       /\ selectedIssue.Level = "error" /\ selectedIssue.UserCount = 10
            => bugDetails.Priority = 2
       /\ selectedIssue.Level = "error" /\ selectedIssue.UserCount = 60
            => bugDetails.Priority <= 2
       /\ selectedIssue.Level = "error" /\ selectedIssue.UserCount = 150
            => bugDetails.Priority = 1

\* an error seen by 150 users has priority 1
C14_ErrorAt150 ==
    /\ Derived
    /\ selectedIssue.Level = "error"
    /\ selectedIssue.UserCount = 150
    /\ bugDetails.Priority = 1

\* C15: the issue with level error, 75 users, short id ABC-1 and title
\* NullPointer, synced through a mapping with the default labels bug and
\* sentry and the team T1, every label resolution succeeding, is created for
\* team T1 with priority 2, the title "[Sentry ABC-1] NullPointer" and labels
\* containing bug, sentry, level:error, platform:go and medium-impact.
C15_EndToEnd ==
    /\ pc = "created"
    /\ selectedIssue.Level = "error"
    /\ selectedIssue.UserCount = 75
    /\ SelectedMapping.DefaultLabels = <<"bug", "sentry">>
    /\ SelectedMapping.LinearTeamID = "T1"
    => /\ Len(sink.issues) = 1
       /\ sink.issues[1].teamId = "T1"
       /\ sink.issues[1].priority = 2
       /\ sink.issues[1].title = "[Sentry ABC-1] NullPointer"
       /\ {"bug", "sentry", "level:error", "platform:go", "medium-impact"}
             \subseteq IssueLabelNames(sink.issues[1])

\* that issue has been created
C15_Created ==
    /\ pc = "created"
    /\ selectedIssue.Level = "error"
    /\ selectedIssue.UserCount = 75
    /\ selectedIssue.ShortID = "ABC-1"
    /\ selectedIssue.Title = "NullPointer"
    /\ SelectedMapping.DefaultLabels = <<"bug", "sentry">>
    /\ SelectedMapping.LinearTeamID = "T1"
    /\ Len(sink.issues) = 1

-----------------------------------------------------------------------------
(* Properties of Load and Save (specification LoadSpec)                    *)

\* C16: the migration is idempotent: migrating a migrated configuration
\* changes nothing, so Load, Save, Load yields the instances and the
\* connections (and every other field) the first Load yielded.
C16_MigrationIdempotent ==
    [][ pc = "saved" /\ pc' = "reloaded"
          => /\ cfg'.Sentry.Instances = cfg.Sentry.Instances
             /\ cfg'.Linear.Instances = cfg.Linear.Instances
             /\ cfg'.BugManager.Connections = cfg.BugManager.Connections
             /\ cfg' = cfg ]_vars

\* the second Load of a document whose first Load migrated both credentials
\* and the project table
C16_ReloadedMigrated ==
    /\ pc = "reloaded"
    /\ DOMAIN cfg.Sentry.Instances = {"default"}
    /\ DOMAIN cfg.Linear.Instances = {"default"}
    /\ Len(cfg.BugManager.Connections) = 1
    /\ cfg.BugManager.Connections[1].Name = "Default Connection"

\* a document with legacy fields only
LegacyOnly(d) ==
    /\ DOMAIN d.sentry.instances = {}
    /\ DOMAIN d.linear.instances = {}
    /\ Len(d.bug_manager.connections) = 0

\* an entry of the legacy Sentry project table names an entry of the legacy
\* Linear project table
LegacyMappingResolves(d) ==
    \E k \in DOMAIN d.sentry.projects :
        d.sentry.projects[k].linear_project_id \in DOMAIN d.linear.projects

\* Load then Save of a legacy-only document: "default" for each kind whose
\* credential is populated, carrying the credential
DefaultInstancesSaved(d, saved) ==
    /\ d.sentry.api_key # ""
         => /\ "default" \in DOMAIN saved.sentry.instances
            /\ saved.sentry.instances["default"].api_key = d.sentry.api_key
    /\ d.linear.api_key # ""
         => /\ "default" \in DOMAIN saved.linear.instances
            /\ saved.linear.instances["default"].api_key = d.linear.api_key
    /\ Len(saved.bug_manager.connections) <= 1

\* C17 as stated: Load then Save of a legacy-only document yields
\* Instances["default"] for each kind whose legacy credential is populated,
\* carrying that credential, and exactly one synthesized connection iff the
\* legacy project table had entries.
C17_RoundTripIffMappings ==
    [][ pc = "loaded" /\ pc' = "saved" /\ LegacyOnly(file)
          => /\ DefaultInstancesSaved(file, file')
             /\ Len(file'.bug_manager.connections) = 1
                   <=> DOMAIN file.sentry.projects # {} ]_vars

\* C17: Load then Save of a legacy-only document yields Instances["default"]
\* for each kind whose legacy credential is populated, carrying that
\* credential, and exactly one synthesized connection iff some entry of the
\* legacy Sentry project table names an entry of the legacy Linear project
\* table (entries that name none are left out; when all are, no connection
\* is made).
C17_RoundTripIffResolved ==
    [][ pc = "loaded" /\ pc' = "saved" /\ LegacyOnly(file)
          => /\ DefaultInstancesSaved(file, file')
             /\ Len(file'.bug_manager.connections) = 1
                   <=> LegacyMappingResolves(file) ]_vars

\* saved after the Load of a legacy-only document whose project table names
\* no Linear project: both instances, no connection
C17_SavedWithoutConnection ==
    /\ pc = "saved"
    /\ DOMAIN file.sentry.projects # {}
    /\ DOMAIN file.linear.projects = {}
    /\ DOMAIN file.sentry.instances = {"default"}
    /\ DOMAIN file.linear.instances = {"default"}
    /\ file.linear.instances["default"].api_key = LegacyAPIKey
    /\ Len(file.bug_manager.connections) = 0

\* the legacy fields other than the base URL, the instances and the
\* connections of stored are those of c
KeptExceptBaseURL(stored, c) ==
    /\ c.Sentry.APIKey = stored.Sentry.APIKey
    /\ c.Sentry.Projects = stored.Sentry.Projects
    /\ c.Linear.APIKey = stored.Linear.APIKey
    /\ c.Linear.Projects = stored.Linear.Projects
    /\ \A k \in DOMAIN stored.Sentry.Instances :
          k \in DOMAIN c.Sentry.Instances
          /\ c.Sentry.Instances[k] = stored.Sentry.Instances[k]
    /\ \A k \in DOMAIN stored.Linear.Instances :
          k \in DOMAIN c.Linear.Instances
          /\ c.Linear.Instances[k] = stored.Linear.Instances[k]
    /\ Len(stored.BugManager.Connections) <= Len(c.BugManager.Connections)
    /\ \A i \in 1 .. Len(stored.BugManager.Connections) :
          c.BugManager.Connections[i] = stored.BugManager.Connections[i]

\* C18 as stated: across Load and the following Save, Sentry.APIKey,
\* Sentry.BaseURL, Sentry.Projects, Linear.APIKey and Linear.Projects keep
\* the values of the stored configuration, and no instance or connection
\* already present is removed or modified.
C18_LegacyKept ==
    [][ /\ pc = "start" /\ pc' = "loaded"
             => /\ KeptExceptBaseURL(Unmarshal(file), cfg')
                /\ cfg'.Sentry.BaseURL = file.sentry.base_url
        /\ pc = "loaded" /\ pc' = "saved"
             => /\ KeptExceptBaseURL(Unmarshal(file), Unmarshal(file'))
                /\ file'.sentry.base_url = file.sentry.base_url ]_vars

\* C18: across Load and the following Save, Sentry.APIKey, Sentry.Projects,
\* Linear.APIKey and Linear.Projects keep the values of the stored
\* configuration, Sentry.BaseURL keeps its value unless it was empty, in
\* which case it becomes "https://sentry.io/api/0", and no instance or
\* connection already present is removed or modified.
C18_LegacyKeptBaseURLDefaulted ==
    [][ /\ pc = "start" /\ pc' = "loaded"
             => /\ KeptExceptBaseURL(Unmarshal(file), cfg')
                /\ cfg'.Sentry.BaseURL =
                      IF file.sentry.base_url = "" THEN DefaultBaseURL
                      ELSE file.sentry.base_url
        /\ pc = "loaded" /\ pc' = "saved"
             => /\ KeptExceptBaseURL(Unmarshal(file), Unmarshal(file'))
                /\ file'.sentry.base_url =
                      IF file.sentry.base_url = "" THEN DefaultBaseURL
                      ELSE file.sentry.base_url ]_vars

\* saved after a Load that kept the stored Sentry instance and connection
\* and migrated the Linear credential
C18_SavedKeptAndMigrated ==
    /\ pc = "saved"
    /\ DOMAIN file.sentry.instances = {"work"}
    /\ DOMAIN file.linear.instances = {"default"}
    /\ file.sentry.api_key = LegacyAPIKey
    /\ DOMAIN file.sentry.projects # {}
    /\ Len(file.bug_manager.connections) = 1
    /\ file.bug_manager.connections[1].name = "c1"

-----------------------------------------------------------------------------
(* Properties of the stored configuration (specification Spec)             *)

\* C19: the configuration is durable: the config read back by Load from the
\* document Save wrote has exactly the instances and the connections that
\* were saved, so a connection or an instance removed through the menus is
\* still absent after the next Load.
C19_Durable ==
    [][ Restart /\ file = Save(cfg)
          => /\ cfg'.Sentry.Instances = cfg.Sentry.Instances
             /\ cfg'.Linear.Instances = cfg.Linear.Instances
             /\ cfg'.BugManager.Connections = cfg.BugManager.Connections ]_vars

\* the persisted instances, connections and mappings are the in-memory ones
Persisted ==
    /\ Unmarshal(file).Sentry.Instances = cfg.Sentry.Instances
    /\ Unmarshal(file).Linear.Instances = cfg.Linear.Instances
    /\ Unmarshal(file).BugManager.Connections = cfg.BugManager.Connections

\* C20: persistence is write-through: every step of the menus that changes
\* the in-memory configuration (every step that changes it other than a
\* Load of the file: the adds, edits and removes of instances, connections
\* and project mappings) has saved it before the next prompt, so after each
\* such step the persisted instances, connections and mappings equal the
\* in-memory ones.
C20_WriteThrough ==
    [][ cfg' # cfg /\ ~Restart => Persisted' ]_vars

\* a connection was added to a migrated configuration and is in the file
C20_SavedSecondConnection ==
    /\ Len(cfg.BugManager.Connections) = 2
    /\ cfg.BugManager.Connections[2].Name = "c1"
    /\ Len(file.bug_manager.connections) = 2
    /\ file.bug_manager.connections[2].name = "c1"
    /\ Persisted

-----------------------------------------------------------------------------
(* Properties of the labels of the workspace (specification SyncSpec)      *)

\* C21: with one pass after the other against a workspace in which a
\* created label is visible to the later lookups, GetOrCreateLabel is
\* idempotent: the calls for one (team, name) return one label id and create
\* at most one label, so the team never holds two labels of one name.
C21_SequentialIdempotent ==
    /\ \A l1 \in sink.labels, l2 \in sink.labels :
          l1.team = l2.team /\ l1.name = l2.name => l1.id = l2.id
    /\ \A k \in 1 .. Len(sink.issues) : \A id \in Range(sink.issues[k].labelIds) :
          \E l \in sink.labels : l.id = id /\ l.team = sink.issues[k].teamId

\* two passes resolved the label bug, created by the first of them, and
\* sent the same id
C21_SecondCallFound ==
    /\ pass.n = 2
    /\ Len(sink.issues) = 2
    /\ \E l \in sink.labels :
          /\ l.name = "bug"
          /\ l.id \in Range(sink.issues[1].labelIds)
          /\ l.id \in Range(sink.issues[2].labelIds)
    /\ Cardinality({ l \in sink.labels : l.name = "bug" }) = 1

-----------------------------------------------------------------------------
(* Properties of two interleaved runs (specification RaceSpec)             *)

\* the labels of the team with this name
Named(name) ==
    { l \in sink.labels :
        /\ l.team = ConfigMigrated.BugManager.Connections[1].ProjectMappings[1].LinearTeamID
        /\ l.name = name }

\* the names run r has got an id for, in the order of its loop
Resolved(r) ==
    SelectSeq(SubSeq(RaceLabels, 1, Len(RaceLabels)),
              LAMBDA name : name \notin pass[r].warned)

\* C22: the lookup and the create of GetOrCreateLabel are two requests with
\* nothing between them: a run that saw the label absent creates it
\* whatever the other run did meanwhile. Every id a run collects is the id
\* of a label of the requested name, a run creates a name at most once, and
\* a team holds two labels of one name only when both runs created one: the
\* state with two labels of the same name is reachable.
C22_DuplicateOnlyByRace ==
    /\ \A r \in Runs : \A k \in 1 .. Len(pass[r].labelIDs) :
          \E l \in Named(Resolved(r)[k]) : l.id = pass[r].labelIDs[k]
    /\ \A name \in Range(RaceLabels) :
          /\ Cardinality(Named(name)) <= Cardinality(Runs)
          /\ \A r \in Runs :
                Cardinality({ l \in Named(name) : l.id \in pass[r].created }) <= 1
          /\ Cardinality(Named(name)) > 1
                => \A r \in Runs : \E l \in Named(name) : l.id \in pass[r].created

\* both runs saw the label sentry absent and both created it
C22_TwoLabelsOfOneName ==
    /\ Cardinality(Named("sentry")) = 2
    /\ \A r \in Runs : \E l \in Named("sentry") : l.id \in pass[r].created


-----------------------------------------------------------------------------
(* Properties of the steps of a pass (specification SyncSpec)              *)

\* C24: a failed GetLatestEvent does not end the pass: after the request,
\* failed or not, the pass stands at the preview and the confirmation
\* "Create this issue in Linear?". Without the event the description has
\* neither the stack trace section nor the error location, it still ends
\* with the link back to the permalink of the Sentry issue, and it is the
\* description of the issue the pass creates.
C24_EventFailureNotFatal ==
    /\ (calls # <<>> /\ calls[Len(calls)] = "GetLatestEvent" /\ pass.create = "")
          => pc = "confirmCreate" /\ pass.failed = ""
    /\ ("GetLatestEvent" \in Range(calls) /\ ~pass.event)
          => LET d == pass.bug.Description IN
               /\ "## Stack Trace" \notin Range(d)
               /\ "**Error Location:**" \notin Range(d)
               /\ d[Len(d)] = "[View in Sentry](" \o IssueTable[pass.issue].Permalink \o ")"
               /\ pass.linearIssue # 0
                    => sink.issues[pass.linearIssue].description = d

\* the issue i1, whose latest event has an in-app frame, was created after
\* the event could not be fetched
C24_CreatedWithoutEvent ==
    /\ pass.issue = "i1"
    /\ "GetLatestEvent" \in Range(calls)
    /\ ~pass.event
    /\ pass.linearIssue # 0
    /\ "## Stack Trace" \notin Range(sink.issues[pass.linearIssue].description)


\* the place of a request in the order of a pass
Rank(call) ==
    CASE call = "GetUnresolvedIssues" -> 1
      [] call = "GetIssueDetails" -> 2
      [] call = "GetLatestEvent" -> 3
      [] call = "GetWorkflowStates" -> 4
      [] call \in {"GetLabel", "CreateLabel"} -> 5
      [] call = "CreateIssue" -> 6
      [] call = "ResolveIssue" -> 7

\* call may follow the requests log of the pass
Follows(log, call) ==
    LET last == IF log = <<>> THEN 0 ELSE Rank(log[Len(log)]) IN
      CASE Rank(call) <= 4 -> Rank(call) = last + 1
        [] Rank(call) = 5 -> /\ last \in {4, 5}
                              /\ pass.create = "yes"
                              /\ call = "CreateLabel" => log[Len(log)] = "GetLabel"
        [] Rank(call) = 6 -> last \in {4, 5} /\ pass.create = "yes"
        [] Rank(call) = 7 -> last = 6 /\ pass.resolve = "yes"

\* C25: the requests of a pass go out one at a time in the order
\* GetUnresolvedIssues, GetIssueDetails, GetLatestEvent, (the confirmation),
\* GetWorkflowStates, GetOrCreateLabel for each label, CreateIssue, (the
\* confirmation), ResolveIssue, none skipped and none twice but the label
\* requests; and a further pass begins only from the menu or from "Sync
\* another issue", after the requests of the pass before it.
C25_StrictSequence ==
    [][ /\ (calls' # calls /\ calls' # <<>>)
            => /\ Len(calls') = Len(calls) + 1
               /\ SubSeq(calls', 1, Len(calls)) = calls
               /\ Follows(calls, calls'[Len(calls')])
        /\ pass'.n # pass.n
            => /\ pc \in {"menu", "syncAnother"}
               /\ pc' = "syncBugs"
               /\ calls' = <<>>
               /\ pass'.n = pass.n + 1 ]_vars

\* the second pass, begun by "Sync another issue", made every request
C25_SecondPassComplete ==
    /\ pass.n = 2
    /\ Len(calls) >= 7
    /\ calls[Len(calls)] = "ResolveIssue"
    /\ "CreateLabel" \in Range(calls)


\* how often a request is in the log of the pass
Count(call) == Cardinality({ k \in 1 .. Len(calls) : calls[k] = call })

\* C26: nothing is retried. A pass makes each of GetUnresolvedIssues,
\* GetIssueDetails, GetLatestEvent, GetWorkflowStates, CreateIssue and
\* ResolveIssue at most once, failed or not, and looks each entry of the
\* label list up at most once, creating it at most once; a failed
\* CreateIssue ends the pass at once.
C26_NoRetry ==
    /\ \A call \in {"GetUnresolvedIssues", "GetIssueDetails", "GetLatestEvent",
                    "GetWorkflowStates", "CreateIssue", "ResolveIssue"} :
          Count(call) <= 1
    /\ Count("CreateLabel") <= Count("GetLabel")
    /\ Count("GetLabel") > 0 => Count("GetLabel") <= Len(PassLabels)
    /\ Len(pass.labelIDs) + Cardinality(pass.warned) <= Count("GetLabel")
    /\ pass.failed = "CreateIssue"
          => /\ pc = "menu"
             /\ calls[Len(calls)] = "CreateIssue"
             /\ pass.linearIssue = 0
             /\ shown = MsgCreateFailed

\* a pass ended by a failed CreateIssue after a label request had failed too
C26_CreateFailedOnce ==
    /\ pass.failed = "CreateIssue"
    /\ pass.faults = 2
    /\ pass.warned # {}
    /\ Count("CreateIssue") = 1
    /\ pc = "menu"


-----------------------------------------------------------------------------
(* Properties of the labels of a synced issue (specification DeriveSpec)   *)

\* the names of the labels the pass has collected the ids of, in order
LabelNames ==
    [ k \in 1 .. Len(pass.labelIDs) |->
        (CHOOSE l \in sink.labels : l.id = pass.labelIDs[k]).name ]

\* C27: the labels resolved for a sync are the default labels of the mapping
\* followed by level:<level> and platform:<platform> of the issue, followed
\* by high-impact exactly when more than 100 users are affected and by
\* medium-impact exactly when more than 50 and at most 100 are; never both.
C27_LabelDerivation ==
    pc \in {"CreateIssue", "created"} =>
        LET defaults == SelectedMapping.DefaultLabels
            d == Len(defaults)
            users == selectedIssue.UserCount
        IN  /\ Len(LabelNames) = d + 2 + (IF users > 50 THEN 1 ELSE 0)
            /\ SubSeq(LabelNames, 1, d) = defaults
            /\ LabelNames[d + 1] = "level:" \o selectedIssue.Level
            /\ LabelNames[d + 2] = "platform:" \o selectedIssue.Platform
            /\ "high-impact" \in Range(LabelNames) <=> users > 100
            /\ "medium-impact" \in Range(LabelNames) <=> (users > 50 /\ users <= 100)
            /\ ~ ("high-impact" \in Range(LabelNames) /\ "medium-impact" \in Range(LabelNames))

\* an issue of exactly 100 affected users was created with medium-impact
C27_MediumAt100 ==
    /\ pc = "created"
    /\ selectedIssue.UserCount = 100
    /\ LabelNames[Len(LabelNames)] = "medium-impact"
    /\ sink.issues[Len(sink.issues)].labelIds = pass.labelIDs


\* C28: the labels of a synced issue are a set: the pass resolves each label
\* name once, and the labelIds it hands to CreateIssue hold no id twice,
\* also when a default label of the mapping is a derived label as well or
\* the default labels repeat a name.
C28_LabelIdsDistinct ==
    pc \in {"CreateIssue", "created"} =>
        /\ \A j \in 1 .. Len(pass.labelIDs), k \in 1 .. Len(pass.labelIDs) :
              j # k => pass.labelIDs[j] # pass.labelIDs[k]
        /\ Len(pass.labelIDs)
              = Cardinality(Range(allLabels(SelectedMapping, selectedIssue)))
        /\ pc = "created"
              => LET ids == sink.issues[Len(sink.issues)].labelIds
                 IN  Len(ids) = Cardinality(Range(ids))


-----------------------------------------------------------------------------
(* Properties of a failed save (specification PersistSpec)                 *)

\* C29: a management step whose config.Save fails reports the error and
\* leaves the in-memory instances, connections and project mappings as they
\* were before the step, so that memory and file do not diverge.
C29_FailedSaveKeepsState ==
    [][ shown' = MsgSaveFailed
          => /\ cfg'.Sentry.Instances = cfg.Sentry.Instances
             /\ cfg'.Linear.Instances = cfg.Linear.Instances
             /\ cfg'.BugManager.Connections = cfg.BugManager.Connections ]_vars


-----------------------------------------------------------------------------
(* Properties of the manual issue creation (specification NavSpec)         *)

\* C30: in createManualIssue the labels prompt can be skipped: Enter on the
\* empty input does not cancel, the function goes on to the selection of
\* the initial state or to the confirmation "Create this issue in Linear?".
C30_EmptyLabelsGoOn ==
    [][ (/\ SubmitEmpty
         /\ Top.fn = "createManualIssue"
         /\ Functions[Top.fn].prompts[Top.at].title = "Labels")
        => /\ ret' = NoReturn
           /\ Len(stack') = Len(stack)
           /\ stack'[Len(stack')].fn = "createManualIssue"
           /\ stack'[Len(stack')].at \in {8, 9} ]_vars

====
